---- MODULE Spec2Model ----
(***************************************************************************)
(* A model of the Key Value resolver of nt-hive (src/src/key_value.rs) and *)
(* of its Index Root iterator (src/src/index_root.rs), and of the          *)
(* comparator of its name strings (src/src/string.rs).                     *)
(*                                                                         *)
(* The hive is an immutable byte blob.  Every view (a Key Value, a data    *)
(* slice, an iterator) is a pair of positions into that blob, and every    *)
(* header field is read from the blob's bytes in little-endian order.      *)
(* TLC's integers are 32 bit wide and signed, so a u32 is kept as its four *)
(* bytes or as two 16-bit limbs, and a u64 as four 16-bit limbs.           *)
(***************************************************************************)
EXTENDS Integers, Sequences, FiniteSets, TLC

VARIABLES
    hive,        \* the parameters of the blob (Hive.data), fixed after Init
    key_value,   \* the KeyValue view: header_range and data_range, or NoKeyValue
    op,          \* the accessor called last
    result,      \* what that accessor returned
    strings,     \* the RegMultiSZStrings iterator, or NoIter
    yielded,     \* what its next() calls returned so far, in call order
    index_root,  \* the IndexRootIter, or None
    operands     \* the operands of the string.rs function called

vars == <<hive, key_value, op, result, strings, yielded, index_root, operands>>

(***************************************************************************)
(* Bytes, ranges and integers                                              *)
(***************************************************************************)
Range(s, e) == [start |-> s, end |-> e]

RangeLen(r) == r.end - r.start

Min(a, b) == IF a < b THEN a ELSE b

\* A u16 from two little-endian bytes.
U16FromLe(b) == b[1] + 256 * b[2]

\* The bytes of a u16, little-endian.
U16ToLe(n) == <<n % 256, n \div 256>>

\* A u32 as two 16-bit limbs, from four little-endian bytes.
U32FromLe(b) == [lo |-> b[1] + 256 * b[2], hi |-> b[3] + 256 * b[4]]

\* A u32 as two 16-bit limbs, from four big-endian bytes.
U32FromBe(b) == [lo |-> b[4] + 256 * b[3], hi |-> b[2] + 256 * b[1]]

\* A u64 as four 16-bit limbs (least significant first), from eight
\* little-endian bytes.
U64FromLe(b) == [k \in 1..4 |-> b[2 * k - 1] + 256 * b[2 * k]]

\* The four little-endian bytes of a number below 2^31.
U32ToLe(n) ==
    <<n % 256, (n \div 256) % 256, (n \div 65536) % 256, n \div 16777216>>

\* The four little-endian bytes of the i32 -n (two's complement), for
\* 0 < n < 2^24.
NegI32ToLe(n) ==
    LET low == 16777216 - n
    IN  <<low % 256, (low \div 256) % 256, low \div 65536, 255>>

\* Whether a u32 (as limbs) fits a number the model can compute with.
FitsInt(u) == u.hi < 32768

\* The number a u32 (as limbs) stands for, when FitsInt.
ToInt(u) == u.hi * 65536 + u.lo

(***************************************************************************)
(* Results                                                                 *)
(***************************************************************************)
Ok(v) == [tag |-> "Ok", val |-> v]

\* An NtHiveError: its kind and the fields every kind used here carries.
Err(k, o, e, a) ==
    [tag |-> "Err", kind |-> k, offset |-> o, expected |-> e, actual |-> a]

IsOk(r) == r.tag = "Ok"

IsErr(r) == r.tag = "Err"

(***************************************************************************)
(* The layout of the blob.  Positions are indexes into Hive.data, that is  *)
(* data offsets: the cell at data offset d has its size field at d and its *)
(* payload from d + 4 on.                                                  *)
(***************************************************************************)
CellHeaderSize == 4

CellAlignment == 8

HiveDataOrigin == 4096

KeyValueHeaderSize == 20

BigDataHeaderSize == 8

BigDataListItemSize == 4

BIG_DATA_SEGMENT_SIZE == 16344

DATA_STORED_IN_DATA_OFFSET_BYTE == 128

\* The cells of the blob, back to back after a 32-byte hive bin header:
\* the vk cell, a small data cell, the db cell, its segment list, two
\* segments (a full one and the last, short one) and a free cell.
VkCellOffset == 4 * CellAlignment

VkCellSize == CellHeaderSize + KeyValueHeaderSize + 8

SmallCellOffset == VkCellOffset + VkCellSize

ShortCellSize == 2 * CellAlignment

DbCellOffset == SmallCellOffset + ShortCellSize

SegListCellOffset == DbCellOffset + ShortCellSize

Seg0CellOffset == SegListCellOffset + ShortCellSize

Seg0CellSize == CellHeaderSize + BIG_DATA_SEGMENT_SIZE + 4

Seg1CellOffset == Seg0CellOffset + Seg0CellSize

FreeCellOffset == Seg1CellOffset + ShortCellSize

HiveLen == FreeCellOffset + ShortCellSize

\* The UTF-16 code units the payloads are written with: NUL, 'a', a high
\* surrogate and a low surrogate.
Units == {0, 97, 55357, 56832}

\* The bytes of a sequence of code units, little-endian.
UnitBytes(us) ==
    [k \in 1..(2 * Len(us)) |->
        IF k % 2 = 1 THEN us[(k + 1) \div 2] % 256 ELSE us[k \div 2] \div 256]

\* A sequence padded with zero bytes to n bytes.
Pad(bs, n) == [k \in 1..n |-> IF k <= Len(bs) THEN bs[k] ELSE 0]

\* The bytes of the vk cell: size field, KeyValueHeader, name.
VkCellBytes(p) ==
    Pad(NegI32ToLe(VkCellSize) \o p.signature \o p.name_length \o p.data_size
        \o p.data_offset \o p.data_type \o p.flags \o <<0, 0>> \o p.name,
        VkCellSize)

SmallCellBytes(p) ==
    Pad(NegI32ToLe(ShortCellSize) \o UnitBytes(p.small), ShortCellSize)

\* The db cell: size field, BigDataHeader (signature, segment_count,
\* segment_list_offset).
DbCellBytes(p) ==
    Pad(NegI32ToLe(ShortCellSize) \o p.db_signature \o U16ToLe(p.segment_count)
        \o U32ToLe(SegListCellOffset), ShortCellSize)

SegListCellBytes(p) ==
    Pad(NegI32ToLe(ShortCellSize) \o U32ToLe(Seg0CellOffset)
        \o U32ToLe(p.seg1_offset), ShortCellSize)

\* The last, short segment: the two code units after the boundary of the
\* segments, then letters.
Seg1CellBytes(p) ==
    NegI32ToLe(ShortCellSize)
    \o UnitBytes(<<p.edge[2], p.edge[3], 97, 97, 97, 97>>)

FreeCellBytes == Pad(U32ToLe(ShortCellSize), ShortCellSize)

\* The blob made of the parameters p: the bytes of its short cells, the
\* code units of the first segment that are not letters, and p itself.
MakeHive(p) ==
    [p       |-> p,
     vk      |-> VkCellBytes(p),
     small   |-> SmallCellBytes(p),
     db      |-> DbCellBytes(p),
     seglist |-> SegListCellBytes(p),
     seg1    |-> Seg1CellBytes(p),
     free    |-> FreeCellBytes]

\* The code units of the first, full segment: letters, but for its first
\* and its last one.
Seg0Unit(h, k) ==
    IF k = 0 THEN h.p.first
    ELSE IF k = BIG_DATA_SEGMENT_SIZE \div 2 - 1 THEN h.p.edge[1]
    ELSE 97

UnitByte(u, i) == IF i % 2 = 0 THEN u % 256 ELSE u \div 256

\* Hive.data[i]
HiveByte(h, i) ==
    IF i < VkCellOffset THEN 0
    ELSE IF i < SmallCellOffset THEN h.vk[i - VkCellOffset + 1]
    ELSE IF i < DbCellOffset THEN h.small[i - SmallCellOffset + 1]
    ELSE IF i < SegListCellOffset THEN h.db[i - DbCellOffset + 1]
    ELSE IF i < Seg0CellOffset THEN h.seglist[i - SegListCellOffset + 1]
    ELSE IF i < Seg1CellOffset THEN
        LET k == i - Seg0CellOffset - CellHeaderSize
        IN  IF k < 0 THEN NegI32ToLe(Seg0CellSize)[k + CellHeaderSize + 1]
            ELSE IF k < BIG_DATA_SEGMENT_SIZE
                THEN UnitByte(Seg0Unit(h, k \div 2), k)
            ELSE 0
    ELSE IF i < FreeCellOffset THEN h.seg1[i - Seg1CellOffset + 1]
    ELSE h.free[i - FreeCellOffset + 1]

\* &Hive.data[range]
Slice(h, r) == [k \in 1..RangeLen(r) |-> HiveByte(h, r.start + k - 1)]

\* Hive::offset_of_data_offset: the file offset of a position of Hive.data.
offset_of_data_offset(i) == i + HiveDataOrigin

\* Hive::offset_of_field, for a field that lies at position i of Hive.data.
offset_of_field(i) == i + HiveDataOrigin

\* helpers::byte_subrange: the leading len bytes of a range, or none.
NoRange == [start |-> -1, end |-> -1]

byte_subrange(r, len) ==
    IF len <= RangeLen(r) THEN Range(r.start, r.start + len) ELSE NoRange

(***************************************************************************)
(* The cell layer: a data offset (a u32, as limbs) to the range of the     *)
(* cell's payload.  Every step of a function that uses a value more than   *)
(* once is an operator of its own that takes the value as a parameter.     *)
(***************************************************************************)
\* The size of the cell whose i32 size field is `size`: the field negated,
\* or 0 when the field is not negative (a free cell) or cannot be negated.
AllocatedSize(size) ==
    IF size.hi > 32768 \/ (size.hi = 32768 /\ size.lo > 0)
    THEN (65535 - size.hi) * 65536 + (65536 - size.lo)
    ELSE 0

CellOfSize(at, size, cell_size) ==
    IF cell_size = 0
    THEN Err("InvalidCellSize", offset_of_data_offset(at), 0, size)
    ELSE IF cell_size < CellAlignment \/ cell_size % CellAlignment # 0
            \/ at + cell_size > HiveLen
    THEN Err("InvalidCellSize", offset_of_data_offset(at), 0, cell_size)
    ELSE Ok(Range(at + CellHeaderSize, at + cell_size))

CellWithHeader(h, at, header_range) ==
    IF header_range = NoRange
    THEN Err("InvalidCellSize", offset_of_data_offset(at), CellHeaderSize,
             HiveLen - at)
    ELSE CellOfSize(at, U32FromLe(Slice(h, header_range)),
                    AllocatedSize(U32FromLe(Slice(h, header_range))))

cell_range_from_data_offset(h, data_offset) ==
    IF ~FitsInt(data_offset) \/ ToInt(data_offset) >= HiveLen
    THEN Err("InvalidDataOffset", -1, HiveLen, data_offset)
    ELSE CellWithHeader(h, ToInt(data_offset),
                        byte_subrange(Range(ToInt(data_offset), HiveLen),
                                      CellHeaderSize))

(***************************************************************************)
(* Big Data: the iterator over the segments of a db structure.  Its state  *)
(* is the range of the segment list items not read yet and the number of   *)
(* data bytes not returned yet.                                            *)
(***************************************************************************)
DbSignature == <<100, 98>>

None == [tag |-> "None"]

Some(v) == [tag |-> "Some", val |-> v]

\* BigDataSlices::new, from the segment list cell on
BigDataList(list_cell, segment_count, data_size, count_field) ==
    IF IsErr(list_cell) THEN list_cell
    ELSE IF byte_subrange(list_cell.val, segment_count * BigDataListItemSize)
            = NoRange
    THEN Err("InvalidSizeField", offset_of_field(count_field),
             segment_count * BigDataListItemSize, RangeLen(list_cell.val))
    ELSE Ok([items |-> byte_subrange(list_cell.val,
                                     segment_count * BigDataListItemSize),
             bytes_left |-> data_size])

\* BigDataSlices::new, from the bytes of the BigDataHeader on
BigDataHeader(h, data_size, data_size_field_offset, header_range, header) ==
    IF SubSeq(header, 1, 2) # DbSignature
    THEN Err("InvalidTwoByteSignature", offset_of_field(header_range.start),
             DbSignature, SubSeq(header, 1, 2))
    ELSE IF data_size > U16FromLe(SubSeq(header, 3, 4)) * BIG_DATA_SEGMENT_SIZE
    THEN Err("InvalidSizeField", data_size_field_offset,
             U16FromLe(SubSeq(header, 3, 4)) * BIG_DATA_SEGMENT_SIZE,
             data_size)
    ELSE BigDataList(
             cell_range_from_data_offset(h, U32FromLe(SubSeq(header, 5, 8))),
             U16FromLe(SubSeq(header, 3, 4)), data_size,
             header_range.start + 2)

BigDataHeaderAt(h, data_size, field_offset, cell_range, header_range) ==
    IF header_range = NoRange
    THEN Err("InvalidHeaderSize", offset_of_data_offset(cell_range.start),
             BigDataHeaderSize, RangeLen(cell_range))
    ELSE BigDataHeader(h, data_size, field_offset, header_range,
                       Slice(h, header_range))

BigDataSlices_new(h, data_size, data_size_field_offset, header_cell_range) ==
    BigDataHeaderAt(h, data_size, data_size_field_offset, header_cell_range,
                    byte_subrange(header_cell_range, BigDataHeaderSize))

\* BigDataSlices::next, from the cell of the segment on.  After an error
\* the iterator is exhausted.
BigDataSegment(it, item_range, bytes_to_return, cell) ==
    IF IsErr(cell)
    THEN [item |-> Some(cell),
          iter |-> [items |-> Range(item_range.end, it.items.end),
                    bytes_left |-> 0]]
    ELSE IF byte_subrange(cell.val, bytes_to_return) = NoRange
    THEN [item |-> Some(Err("InvalidDataSize",
                            offset_of_data_offset(cell.val.start),
                            bytes_to_return, RangeLen(cell.val))),
          iter |-> [items |-> Range(item_range.end, it.items.end),
                    bytes_left |-> 0]]
    ELSE [item |-> Some(Ok(byte_subrange(cell.val, bytes_to_return))),
          iter |-> [items |-> Range(item_range.end, it.items.end),
                    bytes_left |-> it.bytes_left - bytes_to_return]]

BigDataItem(h, it, item_range, bytes_to_return) ==
    IF bytes_to_return = 0 \/ item_range = NoRange
    THEN [item |-> None, iter |-> it]
    ELSE BigDataSegment(
             it, item_range, bytes_to_return,
             cell_range_from_data_offset(h, U32FromLe(Slice(h, item_range))))

\* BigDataSlices::next: the item returned (None, Some(Ok(range of the
\* slice)) or Some(Err)) and the iterator afterwards.
BigDataSlices_next(h, it) ==
    BigDataItem(h, it, byte_subrange(it.items, BigDataListItemSize),
                Min(it.bytes_left, BIG_DATA_SEGMENT_SIZE))

(***************************************************************************)
(* KeyValue                                                                *)
(***************************************************************************)
NoKeyValue == [header_range |-> NoRange, data_range |-> NoRange]

VkSignature == <<118, 107>>

\* The KeyValueHeader made of its bytes.  U32FromLe and U16FromLe are the
\* get() of its fields.
KeyValueHeader(b) ==
    [signature   |-> SubSeq(b, 1, 2),
     name_length |-> U16FromLe(SubSeq(b, 3, 4)),
     data_size   |-> U32FromLe(SubSeq(b, 5, 8)),
     data_offset |-> U32FromLe(SubSeq(b, 9, 12)),
     data_type   |-> U32FromLe(SubSeq(b, 13, 16)),
     flags       |-> U16FromLe(SubSeq(b, 17, 18))]

\* KeyValue::header: the KeyValueHeader read from the bytes of header_range.
header(h, kv) == KeyValueHeader(Slice(h, kv.header_range))

\* offset_of!(KeyValueHeader, <field>)
OffsetOfNameLength == 2

OffsetOfDataSize == 4

OffsetOfDataOffset == 8

OffsetOfDataType == 12

\* SignatureChecked that compares the first byte of the signature only.
SignatureCheckedFirstByte(kv, signature) ==
    IF signature[1] = VkSignature[1] THEN Ok(kv)
    ELSE Err("InvalidTwoByteSignature",
             offset_of_field(kv.header_range.start), VkSignature, signature)

SignatureChecked(kv, signature) ==
    IF signature = VkSignature THEN Ok(kv)
    ELSE Err("InvalidTwoByteSignature",
             offset_of_field(kv.header_range.start), VkSignature, signature)

\* KeyValue::validate_signature, with the view it has validated
validate_signature(h, kv) == SignatureChecked(kv, header(h, kv).signature)

KeyValueAt(h, cell_range, header_range) ==
    IF header_range = NoRange
    THEN Err("InvalidHeaderSize", offset_of_data_offset(cell_range.start),
             KeyValueHeaderSize, RangeLen(cell_range))
    ELSE validate_signature(
             h, [header_range |-> header_range,
                 data_range   |-> Range(header_range.end, cell_range.end)])

\* KeyValue::new
KeyValue_new(h, cell_range) ==
    KeyValueAt(h, cell_range, byte_subrange(cell_range, KeyValueHeaderSize))

\* data_size & DATA_STORED_IN_DATA_OFFSET > 0
StoredInDataOffset(size) == size.hi \div 256 >= DATA_STORED_IN_DATA_OFFSET_BYTE

\* (data_size & !DATA_STORED_IN_DATA_OFFSET) as usize
MaskedDataSize(size) == (size.hi % 32768) * 65536 + size.lo

Small(r) == [kind |-> "Small", range |-> r]

Big(it) == [kind |-> "Big", iter |-> it]

\* mem::size_of::<u32>(), the most bytes of inline data
InlineMax == 4

\* InlineData with the size compared by >= : four inline bytes are refused.
InlineDataBelowFour(kv, size) ==
    IF size >= InlineMax
    THEN Err("InvalidSizeField",
             offset_of_field(kv.header_range.start + OffsetOfDataSize),
             InlineMax, size)
    ELSE Ok(Small(Range(kv.header_range.start + OffsetOfDataOffset,
                        kv.header_range.start + OffsetOfDataOffset + size)))

\* KeyValue::data, the data stored in the data_offset field
InlineData(kv, size) ==
    IF size > InlineMax
    THEN Err("InvalidSizeField",
             offset_of_field(kv.header_range.start + OffsetOfDataSize),
             InlineMax, size)
    ELSE Ok(Small(Range(kv.header_range.start + OffsetOfDataOffset,
                        kv.header_range.start + OffsetOfDataOffset + size)))

\* CellData without the check of the cell's length.
CellDataUnchecked(size, cell) ==
    IF IsErr(cell) THEN cell
    ELSE Ok(Small(Range(cell.val.start, cell.val.start + size)))

\* KeyValue::data, the data stored in a single cell
CellData(size, cell) ==
    IF IsErr(cell) THEN cell
    ELSE IF RangeLen(cell.val) < size
    THEN Err("InvalidDataSize", offset_of_data_offset(cell.val.start), size,
             RangeLen(cell.val))
    ELSE Ok(Small(Range(cell.val.start, cell.val.start + size)))

BigMade(iter) == IF IsErr(iter) THEN iter ELSE Ok(Big(iter.val))

\* KeyValue::data, the data stored in a Big Data structure
BigData(h, kv, size, cell) ==
    IF IsErr(cell) THEN cell
    ELSE BigMade(BigDataSlices_new(
                     h, size,
                     offset_of_field(kv.header_range.start + OffsetOfDataSize),
                     cell.val))

\* DataOf with the threshold compared by < : a value of exactly
\* BIG_DATA_SEGMENT_SIZE bytes is read as Big Data.
DataOfBelowThreshold(h, kv, hdr, size) ==
    IF StoredInDataOffset(hdr.data_size) THEN InlineData(kv, size)
    ELSE IF size < BIG_DATA_SEGMENT_SIZE
    THEN CellData(size, cell_range_from_data_offset(h, hdr.data_offset))
    ELSE BigData(h, kv, size, cell_range_from_data_offset(h, hdr.data_offset))

DataOf(h, kv, hdr, size) ==
    IF StoredInDataOffset(hdr.data_size) THEN InlineData(kv, size)
    ELSE IF size <= BIG_DATA_SEGMENT_SIZE
    THEN CellData(size, cell_range_from_data_offset(h, hdr.data_offset))
    ELSE BigData(h, kv, size, cell_range_from_data_offset(h, hdr.data_offset))

HeaderData(h, kv, hdr) == DataOf(h, kv, hdr, MaskedDataSize(hdr.data_size))

\* KeyValue::data
data(h, kv) == HeaderData(h, kv, header(h, kv))

\* KeyValue::data_size
data_size(h, kv) == MaskedDataSize(header(h, kv).data_size)

\* enum KeyValueDataType, in the order of its codes 0..=11
KeyValueDataType ==
    <<"RegNone", "RegSZ", "RegExpandSZ", "RegBinary", "RegDWord",
      "RegDWordBigEndian", "RegLink", "RegMultiSZ", "RegResourceList",
      "RegFullResourceDescriptor", "RegResourceRequirementsList", "RegQWord">>

\* KeyValueDataType::n on the code truncated to its low 16 bits.
KeyValueDataType_n_truncated(code) ==
    IF code.lo < Len(KeyValueDataType)
    THEN Some(KeyValueDataType[code.lo + 1])
    ELSE None

\* KeyValueDataType::n, derived by enumn: the type of a code, if any
KeyValueDataType_n(code) ==
    IF code.hi = 0 /\ code.lo < Len(KeyValueDataType)
    THEN Some(KeyValueDataType[code.lo + 1])
    ELSE None

TypeOfCode(kv, data_type_code, found) ==
    IF found = None
    THEN Err("UnsupportedKeyValueDataType",
             offset_of_field(kv.header_range.start + OffsetOfDataType),
             <<>>, data_type_code)
    ELSE Ok(found.val)

HeaderType(kv, data_type_code) ==
    TypeOfCode(kv, data_type_code, KeyValueDataType_n(data_type_code))

\* KeyValue::data_type
data_type(h, kv) == HeaderType(kv, header(h, kv).data_type)

\* The error of an accessor called on a value of another type.
InvalidKeyValueDataType(expected, actual) ==
    Err("InvalidKeyValueDataType", -1, expected, actual)

DWordSize == 4

QWordSize == 8

\* The error of dword_data and qword_data for Big data.
BigDataSizeError(h, kv, expected) ==
    Err("InvalidDataSize",
        offset_of_data_offset(ToInt(header(h, kv).data_offset)),
        expected, data_size(h, kv))

\* DWordOfType that reads both types in little-endian order.
DWordOfTypeLittleEndian(bytes, type) ==
    IF IsErr(type) THEN type
    ELSE IF type.val \in {"RegDWord", "RegDWordBigEndian"}
    THEN Ok(U32FromLe(bytes))
    ELSE InvalidKeyValueDataType(<<"RegDWord", "RegDWordBigEndian">>,
                                 type.val)

\* KeyValue::dword_data, the match on the data type
DWordOfType(bytes, type) ==
    IF IsErr(type) THEN type
    ELSE IF type.val = "RegDWord" THEN Ok(U32FromLe(bytes))
    ELSE IF type.val = "RegDWordBigEndian" THEN Ok(U32FromBe(bytes))
    ELSE InvalidKeyValueDataType(<<"RegDWord", "RegDWordBigEndian">>,
                                 type.val)

\* DWordOfBytes that refuses shorter data only.
DWordOfBytesAtLeast(h, kv, bytes, stack_offset) ==
    IF Len(bytes) < DWordSize
    THEN Err("InvalidDataSize", stack_offset, DWordSize, Len(bytes))
    ELSE DWordOfType(SubSeq(bytes, 1, DWordSize), data_type(h, kv))

DWordOfBytes(h, kv, bytes, stack_offset) ==
    IF Len(bytes) # DWordSize
    THEN Err("InvalidDataSize", stack_offset, DWordSize, Len(bytes))
    ELSE DWordOfType(bytes, data_type(h, kv))

DWordOfData(h, kv, d, stack_offset) ==
    IF IsErr(d) THEN d
    ELSE IF d.val.kind = "Small"
    THEN DWordOfBytes(h, kv, Slice(h, d.val.range), stack_offset)
    ELSE BigDataSizeError(h, kv, DWordSize)

\* KeyValue::dword_data.  The offset of the error for Small data of another
\* length is offset_of_field(&data), taken from the address of the local
\* variable `data` and not from a position of the blob: stack_offset stands
\* for it.
dword_data(h, kv, stack_offset) ==
    DWordOfData(h, kv, data(h, kv), stack_offset)

\* QWordOfType that reads the bytes in big-endian order.
QWordOfTypeBigEndian(bytes, type) ==
    IF IsErr(type) THEN type
    ELSE IF type.val = "RegQWord"
    THEN Ok([k \in 1..4 |-> bytes[10 - 2 * k] + 256 * bytes[9 - 2 * k]])
    ELSE InvalidKeyValueDataType(<<"RegQWord">>, type.val)

\* KeyValue::qword_data, the match on the data type
QWordOfType(bytes, type) ==
    IF IsErr(type) THEN type
    ELSE IF type.val = "RegQWord" THEN Ok(U64FromLe(bytes))
    ELSE InvalidKeyValueDataType(<<"RegQWord">>, type.val)

QWordOfBytes(h, kv, bytes, stack_offset) ==
    IF Len(bytes) # QWordSize
    THEN Err("InvalidDataSize", stack_offset, QWordSize, Len(bytes))
    ELSE QWordOfType(bytes, data_type(h, kv))

QWordOfData(h, kv, d, stack_offset) ==
    IF IsErr(d) THEN d
    ELSE IF d.val.kind = "Small"
    THEN QWordOfBytes(h, kv, Slice(h, d.val.range), stack_offset)
    ELSE BigDataSizeError(h, kv, QWordSize)

\* KeyValue::qword_data
qword_data(h, kv, stack_offset) ==
    QWordOfData(h, kv, data(h, kv), stack_offset)

\* KeyValueFlags::VALUE_COMP_NAME
VALUE_COMP_NAME == 1

\* NtHiveNameString::Latin1 and NtHiveNameString::Utf16LE over name_bytes
Latin1(r) == [kind |-> "Latin1", range |-> r]

Utf16LE(r) == [kind |-> "Utf16LE", range |-> r]

\* flags.contains(KeyValueFlags::VALUE_COMP_NAME), flags made with
\* from_bits_truncate
ContainsCompName(flags) == (flags \div VALUE_COMP_NAME) % 2 = 1

\* NameOfRange that takes every set flag bit for VALUE_COMP_NAME.
NameOfRangeAnyFlag(kv, hdr, name_range) ==
    IF name_range = NoRange
    THEN Err("InvalidSizeField",
             offset_of_field(kv.header_range.start + OffsetOfNameLength),
             hdr.name_length, RangeLen(kv.data_range))
    ELSE IF hdr.flags # 0 THEN Ok(Latin1(name_range))
    ELSE Ok(Utf16LE(name_range))

NameOfRange(kv, hdr, name_range) ==
    IF name_range = NoRange
    THEN Err("InvalidSizeField",
             offset_of_field(kv.header_range.start + OffsetOfNameLength),
             hdr.name_length, RangeLen(kv.data_range))
    ELSE IF ContainsCompName(hdr.flags) THEN Ok(Latin1(name_range))
    ELSE Ok(Utf16LE(name_range))

HeaderName(kv, hdr) ==
    NameOfRange(kv, hdr, byte_subrange(kv.data_range, hdr.name_length))

\* KeyValue::name
name(h, kv) == HeaderName(kv, header(h, kv))

(***************************************************************************)
(* UTF-16 decoding.  A String is the sequence of its characters' code      *)
(* points.                                                                 *)
(***************************************************************************)
\* slice.chunks_exact(2).map(u16::from_le_bytes): the complete code units of
\* a slice; a trailing odd byte is left out.
SliceUnits(h, r) ==
    [k \in 1..(RangeLen(r) \div 2) |->
        HiveByte(h, r.start + 2 * k - 2)
        + 256 * HiveByte(h, r.start + 2 * k - 1)]

IsHighSurrogate(u) == u >= 55296 /\ u <= 56319

IsLowSurrogate(u) == u >= 56320 /\ u <= 57343

REPLACEMENT_CHARACTER == 65533

NoChar == -1

\* A decoder that leaves a surrogate without its other half out.
DecodedAtSkippingUnpaired(us, i) ==
    IF IsHighSurrogate(us[i]) THEN
        IF i < Len(us) /\ IsLowSurrogate(us[i + 1])
        THEN 65536 + (us[i] - 55296) * 1024 + (us[i + 1] - 56320)
        ELSE NoChar
    ELSE IF IsLowSurrogate(us[i]) THEN NoChar
    ELSE us[i]

\* char::decode_utf16(..).map(unwrap_or(REPLACEMENT_CHARACTER)) at unit i of
\* us: a high surrogate followed by a low one makes one character with it,
\* the low one then makes none of its own (NoChar); every other surrogate
\* makes a replacement character; every other unit is its own character.
DecodedAt(us, i) ==
    IF IsHighSurrogate(us[i]) THEN
        IF i < Len(us) /\ IsLowSurrogate(us[i + 1])
        THEN 65536 + (us[i] - 55296) * 1024 + (us[i + 1] - 56320)
        ELSE REPLACEMENT_CHARACTER
    ELSE IF IsLowSurrogate(us[i]) THEN
        IF i > 1 /\ IsHighSurrogate(us[i - 1]) THEN NoChar
        ELSE REPLACEMENT_CHARACTER
    ELSE us[i]

IsChar(c) == c # NoChar

\* The characters the decoder makes of units from..to of us, in order.
DecodedChars(us, from, to) ==
    SelectSeq([k \in 1..(to - from + 1) |-> DecodedAt(us, from + k - 1)],
              IsChar)

Least(set) == IF set = {} THEN 0 ELSE CHOOSE i \in set : \A j \in set : i <= j

\* The first NUL unit of us at or after from, or 0 when there is none.
FirstNul(us, from) == Least({i \in from..Len(us) : us[i] = 0})

PushedUpTo(us, pos, nul) ==
    IF nul > 0
    THEN [pushed |-> DecodedChars(us, pos + 1, nul - 1), stop |-> nul]
    ELSE [pushed |-> DecodedChars(us, pos + 1, Len(us)), stop |-> 0]

\* The inner loop of utf16le_to_string_lossy and of RegMultiSZStrings::next
\* over the characters of one slice, from unit pos + 1 on: the characters
\* pushed, and the position the character iterator is left at: after the
\* NUL it stopped at, or 0 when it ran to the end of the slice.
PushChars(us, pos) == PushedUpTo(us, pos, FirstNul(us, pos + 1))

\* KeyValue::utf16le_to_string_lossy over the slices of a Big Data iterator
RECURSIVE utf16le_to_string_lossy(_, _, _)
StringOfChars(h, iter, string, chars) ==
    IF chars.stop > 0 THEN Ok(string \o chars.pushed)
    ELSE utf16le_to_string_lossy(h, iter, string \o chars.pushed)

StringOfSlice(h, n, string) ==
    IF n.item = None THEN Ok(string)
    ELSE IF IsErr(n.item.val) THEN n.item.val
    ELSE StringOfChars(h, n.iter, string,
                       PushChars(SliceUnits(h, n.item.val.val), 0))

utf16le_to_string_lossy(h, iter, string) ==
    StringOfSlice(h, BigDataSlices_next(h, iter), string)

\* KeyValue::utf16le_to_string_lossy over iter::once(Ok(data))
utf16le_to_string_lossy_once(h, range) ==
    Ok(PushChars(SliceUnits(h, range), 0).pushed)

StringOfData(h, d) ==
    IF IsErr(d) THEN d
    ELSE IF d.val.kind = "Small"
    THEN utf16le_to_string_lossy_once(h, d.val.range)
    ELSE utf16le_to_string_lossy(h, d.val.iter, <<>>)

\* string_data that resolves data() before it looks at the type.
StringOfTypeAfterData(h, kv, type) ==
    IF IsErr(data(h, kv)) THEN data(h, kv)
    ELSE IF IsErr(type) THEN type
    ELSE IF type.val \notin {"RegSZ", "RegExpandSZ"}
    THEN InvalidKeyValueDataType(<<"RegSZ", "RegExpandSZ">>, type.val)
    ELSE StringOfData(h, data(h, kv))

StringOfType(h, kv, type) ==
    IF IsErr(type) THEN type
    ELSE IF type.val \notin {"RegSZ", "RegExpandSZ"}
    THEN InvalidKeyValueDataType(<<"RegSZ", "RegExpandSZ">>, type.val)
    ELSE StringOfData(h, data(h, kv))

\* KeyValue::string_data
string_data(h, kv) == StringOfType(h, kv, data_type(h, kv))

(***************************************************************************)
(* RegMultiSZStrings: char_iter is the slice being read and the number of  *)
(* its code units consumed; big_iter is the Big Data iterator.             *)
(***************************************************************************)
NoIter == [char_iter |-> None, big_iter |-> None, made |-> FALSE]

RegMultiSZStrings_small(range) ==
    [char_iter |-> Some([range |-> range, pos |-> 0]), big_iter |-> None,
     made |-> TRUE]

RegMultiSZStrings_big(iter) ==
    [char_iter |-> None, big_iter |-> Some(iter), made |-> TRUE]

MultiSZOfData(d) ==
    IF IsErr(d) THEN d
    ELSE IF d.val.kind = "Small" THEN Ok(RegMultiSZStrings_small(d.val.range))
    ELSE Ok(RegMultiSZStrings_big(d.val.iter))

\* MultiSZOfType that takes a REG_SZ value too.
MultiSZOfTypeOrSZ(h, kv, type) ==
    IF IsErr(type) THEN type
    ELSE IF type.val \notin {"RegMultiSZ", "RegSZ"}
    THEN InvalidKeyValueDataType(<<"RegMultiSZ">>, type.val)
    ELSE MultiSZOfData(data(h, kv))

MultiSZOfType(h, kv, type) ==
    IF IsErr(type) THEN type
    ELSE IF type.val # "RegMultiSZ"
    THEN InvalidKeyValueDataType(<<"RegMultiSZ">>, type.val)
    ELSE MultiSZOfData(data(h, kv))

\* KeyValue::multi_string_data
multi_string_data(h, kv) == MultiSZOfType(h, kv, data_type(h, kv))

\* What next() returns once it has left 'outer_loop with `string`.
StringItem(string) == IF string = <<>> THEN None ELSE Some(Ok(string))

\* RegMultiSZStrings::next: 'outer_loop, entered with the iterator it and
\* the string built so far; the item returned and the iterator afterwards.
RECURSIVE RegMultiSZStrings_next(_, _, _)
\* There is no char_iter: the next slice of big_iter, n, makes one.
NextOfSlice(h, it, string, n) ==
    IF n.item = None
    THEN [item |-> StringItem(string),
          iter |-> [it EXCEPT !.big_iter = Some(n.iter)]]
    ELSE IF IsErr(n.item.val)
    THEN [item |-> Some(n.item.val),
          iter |-> [it EXCEPT !.big_iter = Some(n.iter)]]
    ELSE RegMultiSZStrings_next(
             h,
             [it EXCEPT !.char_iter = Some([range |-> n.item.val.val,
                                            pos |-> 0]),
                        !.big_iter = Some(n.iter)],
             string)

\* NextOfChars that returns the string at the end of a slice.
NextOfCharsOfSlice(h, it, string, chars) ==
    IF chars.stop > 0
    THEN [item |-> StringItem(string \o chars.pushed),
          iter |-> [it EXCEPT !.char_iter =
                       Some([range |-> it.char_iter.val.range,
                             pos |-> chars.stop])]]
    ELSE [item |-> StringItem(string \o chars.pushed),
          iter |-> [it EXCEPT !.char_iter = None]]

\* The characters of char_iter are pushed up to a NUL or to its end.
NextOfChars(h, it, string, chars) ==
    IF chars.stop > 0
    THEN [item |-> StringItem(string \o chars.pushed),
          iter |-> [it EXCEPT !.char_iter =
                       Some([range |-> it.char_iter.val.range,
                             pos |-> chars.stop])]]
    ELSE RegMultiSZStrings_next(h, [it EXCEPT !.char_iter = None],
                                string \o chars.pushed)

RegMultiSZStrings_next(h, it, string) ==
    IF it.char_iter = None THEN
        IF it.big_iter = None
        THEN [item |-> StringItem(string), iter |-> it]
        ELSE NextOfSlice(h, it, string,
                         BigDataSlices_next(h, it.big_iter.val))
    ELSE NextOfChars(h, it, string,
                     PushChars(SliceUnits(h, it.char_iter.val.range),
                               it.char_iter.val.pos))

(***************************************************************************)
(* The Index Root iterator (index_root.rs).  Its blob is Key.hive.hive_data *)
(* with the hive bin at Key.hivebin_offset; an offset it reads is relative *)
(* to the hive bin.  An index past the end of a slice, and a failed        *)
(* assert!, is a panic: the call returns nothing and the iterator is gone. *)
(***************************************************************************)
\* mem::size_of::<IndexRootHeader>() and mem::size_of::<IndexRootElement>()
IndexRootHeaderSize == 4

IndexRootElementSize == 4

RiSignature == <<114, 105>>

LiSignature == <<108, 105>>

LfSignature == <<108, 102>>

LhSignature == <<108, 104>>

Panic(line) == [tag |-> "Panic", line |-> line]

IsPanic(r) == r.tag = "Panic"

\* key.hive.hive_data.len() and key.hive.hive_data[i]
HiveDataLen(h) == h.hivebin_offset + Len(h.bin)

HiveData(h, i) == IF i < h.hivebin_offset THEN 0 ELSE h.bin[i - h.hivebin_offset + 1]

\* Whether &hive_data[start..][span] is inside the blob, span ending at end
InBounds(h, start, end) == start <= HiveDataLen(h) /\ end <= HiveDataLen(h) - start

\* &hive_data[start..][from..to], for a span that is InBounds
Span(h, start, from, to) == [k \in 1..(to - from) |-> HiveData(h, start + from + k - 1)]

\* A leaf iterator (IndexLeafIter, FastLeafIter, HashLeafIter): the cursor
\* over the count items after the signature and the count, each item a u32
\* Key Node offset, followed in lf and lh by four bytes of hint or hash.
LeafIterOfCount(start, count, item_size) ==
    [current_offset |-> start + 4,
     end_offset     |-> start + 4 + count * item_size,
     item_size      |-> item_size]

LeafIter_new(h, offset, item_size) ==
    LeafIterOfCount(h.hivebin_offset + offset,
                    U16FromLe(Span(h, h.hivebin_offset + offset, 2, 4)),
                    item_size)

\* The element of a leaf iterator: the Key Node at the offset read.
LeafIter_next(h, leaf) ==
    IF leaf.current_offset < leaf.end_offset
    THEN [item |-> Some(Ok(ToInt(U32FromLe(
                      Span(h, leaf.current_offset, 0, 4))))),
          iter |-> [leaf EXCEPT !.current_offset = @ + leaf.item_size]]
    ELSE [item |-> None, iter |-> leaf]

\* IndexRootIter::new, from the count on
IndexRootIterOfCount(header_end, count) ==
    [inner_iter     |-> None,
     current_offset |-> header_end,
     end_offset     |-> header_end + count * IndexRootElementSize]

IndexRootIterAt(h, header_start) ==
    IF ~InBounds(h, header_start, 2) THEN Panic(49)
    ELSE IF Span(h, header_start, 0, 2) # RiSignature THEN Panic(53)
    ELSE IF ~InBounds(h, header_start, 4) THEN Panic(56)
    ELSE Ok(IndexRootIterOfCount(header_start + IndexRootHeaderSize,
                                 U16FromLe(Span(h, header_start, 2, 4))))

\* IndexRootIter::new
IndexRootIter_new(h, offset) == IndexRootIterAt(h, h.hivebin_offset + offset)

\* InnerIterators whose every leaf is read as an Index Leaf.
InnerOfSignatureAllIndexLeaf(h, signature, subkeys_list_offset) ==
    IF signature \in {LiSignature, LfSignature, LhSignature}
    THEN Some(LeafIter_new(h, subkeys_list_offset, 4))
    ELSE None

\* The match on the signature of a Subkeys List: the inner iterator, or
\* None for the arm that returns the error.
InnerOfSignature(h, signature, subkeys_list_offset) ==
    IF signature = LiSignature
    THEN Some(LeafIter_new(h, subkeys_list_offset, 4))
    ELSE IF signature \in {LfSignature, LhSignature}
    THEN Some(LeafIter_new(h, subkeys_list_offset, 8))
    ELSE None

RECURSIVE IndexRootIter_next(_, _)

\* NextOfInner that ends the iteration with the error.
NextOfInnerEnding(h, it, signature_at, signature, inner) ==
    IF inner = None
    THEN [item |-> Some(Err("InvalidSignature", signature_at, "li|lf|lh",
                            signature)),
          iter |-> [it EXCEPT !.current_offset = it.end_offset]]
    ELSE IndexRootIter_next(h, [it EXCEPT !.inner_iter = inner])

\* next(): the Subkeys List of the element read, its cursor moved on
NextOfInner(h, it, signature_at, signature, inner) ==
    IF inner = None
    THEN [item |-> Some(Err("InvalidSignature", signature_at, "li|lf|lh",
                            signature)),
          iter |-> it]
    ELSE IndexRootIter_next(h, [it EXCEPT !.inner_iter = inner])

NextOfSubkeysList(h, it, subkeys_list_offset) ==
    IF ~InBounds(h, h.hivebin_offset + subkeys_list_offset, 2)
    THEN [item |-> Panic(107), iter |-> it]
    ELSE NextOfInner(h, it, h.hivebin_offset + subkeys_list_offset,
                     Span(h, h.hivebin_offset + subkeys_list_offset, 0, 2),
                     InnerOfSignature(
                         h, Span(h, h.hivebin_offset + subkeys_list_offset,
                                 0, 2),
                         subkeys_list_offset))

\* NextOfElement with the cursor moved on by two elements.
NextOfElementSkipping(h, it) ==
    IF it.current_offset < it.end_offset
    THEN IF ~InBounds(h, it.current_offset, 4)
         THEN [item |-> Panic(95), iter |-> it]
         ELSE NextOfSubkeysList(
                  h, [it EXCEPT
                         !.current_offset = @ + 2 * IndexRootElementSize],
                  ToInt(U32FromLe(Span(h, it.current_offset, 0, 4))))
    ELSE [item |-> None, iter |-> it]

\* next(): no inner iterator, or the inner iterator has no element left
NextOfElement(h, it) ==
    IF it.current_offset < it.end_offset
    THEN IF ~InBounds(h, it.current_offset, 4)
         THEN [item |-> Panic(95), iter |-> it]
         ELSE NextOfSubkeysList(
                  h, [it EXCEPT !.current_offset = @ + IndexRootElementSize],
                  ToInt(U32FromLe(Span(h, it.current_offset, 0, 4))))
    ELSE [item |-> None, iter |-> it]

\* NextOfLeaf that returns None when the leaf has no element left.
NextOfLeafEnding(h, it, n) ==
    [item |-> n.item, iter |-> [it EXCEPT !.inner_iter = Some(n.iter)]]

NextOfLeaf(h, it, n) ==
    IF n.item # None
    THEN [item |-> n.item, iter |-> [it EXCEPT !.inner_iter = Some(n.iter)]]
    ELSE NextOfElement(h, it)

\* IndexRootIter::next: the element, and the iterator after the call
IndexRootIter_next(h, it) ==
    IF it.inner_iter # None
    THEN NextOfLeaf(h, it, LeafIter_next(h, it.inner_iter.val))
    ELSE NextOfElement(h, it)

(***************************************************************************)
(* Name strings (string.rs).  A name is a view of bytes of the hive, in    *)
(* Latin1 or in UTF-16LE; a host string is a sequence of characters.  The  *)
(* comparator walks the UTF-16 code units of its two operands, each unit   *)
(* folded through BMP_UPPERCASE_TABLE, the pairs (lower, upper) below in    *)
(* the order of the source.                                                *)
(***************************************************************************)
BMP_UPPERCASE_TABLE ==
    <<
    <<97, 65>>, <<98, 66>>, <<99, 67>>, <<100, 68>>, <<101, 69>>,
    <<102, 70>>, <<103, 71>>, <<104, 72>>, <<105, 73>>, <<106, 74>>,
    <<107, 75>>, <<108, 76>>, <<109, 77>>, <<110, 78>>, <<111, 79>>,
    <<112, 80>>, <<113, 81>>, <<114, 82>>, <<115, 83>>, <<116, 84>>,
    <<117, 85>>, <<118, 86>>, <<119, 87>>, <<120, 88>>, <<121, 89>>,
    <<122, 90>>, <<181, 924>>, <<224, 192>>, <<225, 193>>, <<226, 194>>,
    <<227, 195>>, <<228, 196>>, <<229, 197>>, <<230, 198>>, <<231, 199>>,
    <<232, 200>>, <<233, 201>>, <<234, 202>>, <<235, 203>>, <<236, 204>>,
    <<237, 205>>, <<238, 206>>, <<239, 207>>, <<240, 208>>, <<241, 209>>,
    <<242, 210>>, <<243, 211>>, <<244, 212>>, <<245, 213>>, <<246, 214>>,
    <<248, 216>>, <<249, 217>>, <<250, 218>>, <<251, 219>>, <<252, 220>>,
    <<253, 221>>, <<254, 222>>, <<255, 376>>, <<257, 256>>, <<259, 258>>,
    <<261, 260>>, <<263, 262>>, <<265, 264>>, <<267, 266>>, <<269, 268>>,
    <<271, 270>>, <<273, 272>>, <<275, 274>>, <<277, 276>>, <<279, 278>>,
    <<281, 280>>, <<283, 282>>, <<285, 284>>, <<287, 286>>, <<289, 288>>,
    <<291, 290>>, <<293, 292>>, <<295, 294>>, <<297, 296>>, <<299, 298>>,
    <<301, 300>>, <<303, 302>>, <<305, 73>>, <<307, 306>>, <<309, 308>>,
    <<311, 310>>, <<314, 313>>, <<316, 315>>, <<318, 317>>, <<320, 319>>,
    <<322, 321>>, <<324, 323>>, <<326, 325>>, <<328, 327>>, <<331, 330>>,
    <<333, 332>>, <<335, 334>>, <<337, 336>>, <<339, 338>>, <<341, 340>>,
    <<343, 342>>, <<345, 344>>, <<347, 346>>, <<349, 348>>, <<351, 350>>,
    <<353, 352>>, <<355, 354>>, <<357, 356>>, <<359, 358>>, <<361, 360>>,
    <<363, 362>>, <<365, 364>>, <<367, 366>>, <<369, 368>>, <<371, 370>>,
    <<373, 372>>, <<375, 374>>, <<378, 377>>, <<380, 379>>, <<382, 381>>,
    <<383, 83>>, <<384, 579>>, <<387, 386>>, <<389, 388>>, <<392, 391>>,
    <<396, 395>>, <<402, 401>>, <<405, 502>>, <<409, 408>>, <<410, 573>>,
    <<414, 544>>, <<417, 416>>, <<419, 418>>, <<421, 420>>, <<424, 423>>,
    <<429, 428>>, <<432, 431>>, <<436, 435>>, <<438, 437>>, <<441, 440>>,
    <<445, 444>>, <<447, 503>>, <<453, 452>>, <<454, 452>>, <<456, 455>>,
    <<457, 455>>, <<459, 458>>, <<460, 458>>, <<462, 461>>, <<464, 463>>,
    <<466, 465>>, <<468, 467>>, <<470, 469>>, <<472, 471>>, <<474, 473>>,
    <<476, 475>>, <<477, 398>>, <<479, 478>>, <<481, 480>>, <<483, 482>>,
    <<485, 484>>, <<487, 486>>, <<489, 488>>, <<491, 490>>, <<493, 492>>,
    <<495, 494>>, <<498, 497>>, <<499, 497>>, <<501, 500>>, <<505, 504>>,
    <<507, 506>>, <<509, 508>>, <<511, 510>>, <<513, 512>>, <<515, 514>>,
    <<517, 516>>, <<519, 518>>, <<521, 520>>, <<523, 522>>, <<525, 524>>,
    <<527, 526>>, <<529, 528>>, <<531, 530>>, <<533, 532>>, <<535, 534>>,
    <<537, 536>>, <<539, 538>>, <<541, 540>>, <<543, 542>>, <<547, 546>>,
    <<549, 548>>, <<551, 550>>, <<553, 552>>, <<555, 554>>, <<557, 556>>,
    <<559, 558>>, <<561, 560>>, <<563, 562>>, <<572, 571>>, <<575, 11390>>,
    <<576, 11391>>, <<578, 577>>, <<583, 582>>, <<585, 584>>, <<587, 586>>,
    <<589, 588>>, <<591, 590>>, <<592, 11375>>, <<593, 11373>>, <<594, 11376>>,
    <<595, 385>>, <<596, 390>>, <<598, 393>>, <<599, 394>>, <<601, 399>>,
    <<603, 400>>, <<604, 42923>>, <<608, 403>>, <<609, 42924>>, <<611, 404>>,
    <<613, 42893>>, <<614, 42922>>, <<616, 407>>, <<617, 406>>, <<618, 42926>>,
    <<619, 11362>>, <<620, 42925>>, <<623, 412>>, <<625, 11374>>, <<626, 413>>,
    <<629, 415>>, <<637, 11364>>, <<640, 422>>, <<642, 42949>>, <<643, 425>>,
    <<647, 42929>>, <<648, 430>>, <<649, 580>>, <<650, 433>>, <<651, 434>>,
    <<652, 581>>, <<658, 439>>, <<669, 42930>>, <<670, 42928>>, <<837, 921>>,
    <<881, 880>>, <<883, 882>>, <<887, 886>>, <<891, 1021>>, <<892, 1022>>,
    <<893, 1023>>, <<940, 902>>, <<941, 904>>, <<942, 905>>, <<943, 906>>,
    <<945, 913>>, <<946, 914>>, <<947, 915>>, <<948, 916>>, <<949, 917>>,
    <<950, 918>>, <<951, 919>>, <<952, 920>>, <<953, 921>>, <<954, 922>>,
    <<955, 923>>, <<956, 924>>, <<957, 925>>, <<958, 926>>, <<959, 927>>,
    <<960, 928>>, <<961, 929>>, <<962, 931>>, <<963, 931>>, <<964, 932>>,
    <<965, 933>>, <<966, 934>>, <<967, 935>>, <<968, 936>>, <<969, 937>>,
    <<970, 938>>, <<971, 939>>, <<972, 908>>, <<973, 910>>, <<974, 911>>,
    <<976, 914>>, <<977, 920>>, <<981, 934>>, <<982, 928>>, <<983, 975>>,
    <<985, 984>>, <<987, 986>>, <<989, 988>>, <<991, 990>>, <<993, 992>>,
    <<995, 994>>, <<997, 996>>, <<999, 998>>, <<1001, 1000>>, <<1003, 1002>>,
    <<1005, 1004>>, <<1007, 1006>>, <<1008, 922>>, <<1009, 929>>, <<1010, 1017>>,
    <<1011, 895>>, <<1013, 917>>, <<1016, 1015>>, <<1019, 1018>>, <<1072, 1040>>,
    <<1073, 1041>>, <<1074, 1042>>, <<1075, 1043>>, <<1076, 1044>>, <<1077, 1045>>,
    <<1078, 1046>>, <<1079, 1047>>, <<1080, 1048>>, <<1081, 1049>>, <<1082, 1050>>,
    <<1083, 1051>>, <<1084, 1052>>, <<1085, 1053>>, <<1086, 1054>>, <<1087, 1055>>,
    <<1088, 1056>>, <<1089, 1057>>, <<1090, 1058>>, <<1091, 1059>>, <<1092, 1060>>,
    <<1093, 1061>>, <<1094, 1062>>, <<1095, 1063>>, <<1096, 1064>>, <<1097, 1065>>,
    <<1098, 1066>>, <<1099, 1067>>, <<1100, 1068>>, <<1101, 1069>>, <<1102, 1070>>,
    <<1103, 1071>>, <<1104, 1024>>, <<1105, 1025>>, <<1106, 1026>>, <<1107, 1027>>,
    <<1108, 1028>>, <<1109, 1029>>, <<1110, 1030>>, <<1111, 1031>>, <<1112, 1032>>,
    <<1113, 1033>>, <<1114, 1034>>, <<1115, 1035>>, <<1116, 1036>>, <<1117, 1037>>,
    <<1118, 1038>>, <<1119, 1039>>, <<1121, 1120>>, <<1123, 1122>>, <<1125, 1124>>,
    <<1127, 1126>>, <<1129, 1128>>, <<1131, 1130>>, <<1133, 1132>>, <<1135, 1134>>,
    <<1137, 1136>>, <<1139, 1138>>, <<1141, 1140>>, <<1143, 1142>>, <<1145, 1144>>,
    <<1147, 1146>>, <<1149, 1148>>, <<1151, 1150>>, <<1153, 1152>>, <<1163, 1162>>,
    <<1165, 1164>>, <<1167, 1166>>, <<1169, 1168>>, <<1171, 1170>>, <<1173, 1172>>,
    <<1175, 1174>>, <<1177, 1176>>, <<1179, 1178>>, <<1181, 1180>>, <<1183, 1182>>,
    <<1185, 1184>>, <<1187, 1186>>, <<1189, 1188>>, <<1191, 1190>>, <<1193, 1192>>,
    <<1195, 1194>>, <<1197, 1196>>, <<1199, 1198>>, <<1201, 1200>>, <<1203, 1202>>,
    <<1205, 1204>>, <<1207, 1206>>, <<1209, 1208>>, <<1211, 1210>>, <<1213, 1212>>,
    <<1215, 1214>>, <<1218, 1217>>, <<1220, 1219>>, <<1222, 1221>>, <<1224, 1223>>,
    <<1226, 1225>>, <<1228, 1227>>, <<1230, 1229>>, <<1231, 1216>>, <<1233, 1232>>,
    <<1235, 1234>>, <<1237, 1236>>, <<1239, 1238>>, <<1241, 1240>>, <<1243, 1242>>,
    <<1245, 1244>>, <<1247, 1246>>, <<1249, 1248>>, <<1251, 1250>>, <<1253, 1252>>,
    <<1255, 1254>>, <<1257, 1256>>, <<1259, 1258>>, <<1261, 1260>>, <<1263, 1262>>,
    <<1265, 1264>>, <<1267, 1266>>, <<1269, 1268>>, <<1271, 1270>>, <<1273, 1272>>,
    <<1275, 1274>>, <<1277, 1276>>, <<1279, 1278>>, <<1281, 1280>>, <<1283, 1282>>,
    <<1285, 1284>>, <<1287, 1286>>, <<1289, 1288>>, <<1291, 1290>>, <<1293, 1292>>,
    <<1295, 1294>>, <<1297, 1296>>, <<1299, 1298>>, <<1301, 1300>>, <<1303, 1302>>,
    <<1305, 1304>>, <<1307, 1306>>, <<1309, 1308>>, <<1311, 1310>>, <<1313, 1312>>,
    <<1315, 1314>>, <<1317, 1316>>, <<1319, 1318>>, <<1321, 1320>>, <<1323, 1322>>,
    <<1325, 1324>>, <<1327, 1326>>, <<1377, 1329>>, <<1378, 1330>>, <<1379, 1331>>,
    <<1380, 1332>>, <<1381, 1333>>, <<1382, 1334>>, <<1383, 1335>>, <<1384, 1336>>,
    <<1385, 1337>>, <<1386, 1338>>, <<1387, 1339>>, <<1388, 1340>>, <<1389, 1341>>,
    <<1390, 1342>>, <<1391, 1343>>, <<1392, 1344>>, <<1393, 1345>>, <<1394, 1346>>,
    <<1395, 1347>>, <<1396, 1348>>, <<1397, 1349>>, <<1398, 1350>>, <<1399, 1351>>,
    <<1400, 1352>>, <<1401, 1353>>, <<1402, 1354>>, <<1403, 1355>>, <<1404, 1356>>,
    <<1405, 1357>>, <<1406, 1358>>, <<1407, 1359>>, <<1408, 1360>>, <<1409, 1361>>,
    <<1410, 1362>>, <<1411, 1363>>, <<1412, 1364>>, <<1413, 1365>>, <<1414, 1366>>,
    <<4304, 7312>>, <<4305, 7313>>, <<4306, 7314>>, <<4307, 7315>>, <<4308, 7316>>,
    <<4309, 7317>>, <<4310, 7318>>, <<4311, 7319>>, <<4312, 7320>>, <<4313, 7321>>,
    <<4314, 7322>>, <<4315, 7323>>, <<4316, 7324>>, <<4317, 7325>>, <<4318, 7326>>,
    <<4319, 7327>>, <<4320, 7328>>, <<4321, 7329>>, <<4322, 7330>>, <<4323, 7331>>,
    <<4324, 7332>>, <<4325, 7333>>, <<4326, 7334>>, <<4327, 7335>>, <<4328, 7336>>,
    <<4329, 7337>>, <<4330, 7338>>, <<4331, 7339>>, <<4332, 7340>>, <<4333, 7341>>,
    <<4334, 7342>>, <<4335, 7343>>, <<4336, 7344>>, <<4337, 7345>>, <<4338, 7346>>,
    <<4339, 7347>>, <<4340, 7348>>, <<4341, 7349>>, <<4342, 7350>>, <<4343, 7351>>,
    <<4344, 7352>>, <<4345, 7353>>, <<4346, 7354>>, <<4349, 7357>>, <<4350, 7358>>,
    <<4351, 7359>>, <<5112, 5104>>, <<5113, 5105>>, <<5114, 5106>>, <<5115, 5107>>,
    <<5116, 5108>>, <<5117, 5109>>, <<7296, 1042>>, <<7297, 1044>>, <<7298, 1054>>,
    <<7299, 1057>>, <<7300, 1058>>, <<7301, 1058>>, <<7302, 1066>>, <<7303, 1122>>,
    <<7304, 42570>>, <<7545, 42877>>, <<7549, 11363>>, <<7566, 42950>>, <<7681, 7680>>,
    <<7683, 7682>>, <<7685, 7684>>, <<7687, 7686>>, <<7689, 7688>>, <<7691, 7690>>,
    <<7693, 7692>>, <<7695, 7694>>, <<7697, 7696>>, <<7699, 7698>>, <<7701, 7700>>,
    <<7703, 7702>>, <<7705, 7704>>, <<7707, 7706>>, <<7709, 7708>>, <<7711, 7710>>,
    <<7713, 7712>>, <<7715, 7714>>, <<7717, 7716>>, <<7719, 7718>>, <<7721, 7720>>,
    <<7723, 7722>>, <<7725, 7724>>, <<7727, 7726>>, <<7729, 7728>>, <<7731, 7730>>,
    <<7733, 7732>>, <<7735, 7734>>, <<7737, 7736>>, <<7739, 7738>>, <<7741, 7740>>,
    <<7743, 7742>>, <<7745, 7744>>, <<7747, 7746>>, <<7749, 7748>>, <<7751, 7750>>,
    <<7753, 7752>>, <<7755, 7754>>, <<7757, 7756>>, <<7759, 7758>>, <<7761, 7760>>,
    <<7763, 7762>>, <<7765, 7764>>, <<7767, 7766>>, <<7769, 7768>>, <<7771, 7770>>,
    <<7773, 7772>>, <<7775, 7774>>, <<7777, 7776>>, <<7779, 7778>>, <<7781, 7780>>,
    <<7783, 7782>>, <<7785, 7784>>, <<7787, 7786>>, <<7789, 7788>>, <<7791, 7790>>,
    <<7793, 7792>>, <<7795, 7794>>, <<7797, 7796>>, <<7799, 7798>>, <<7801, 7800>>,
    <<7803, 7802>>, <<7805, 7804>>, <<7807, 7806>>, <<7809, 7808>>, <<7811, 7810>>,
    <<7813, 7812>>, <<7815, 7814>>, <<7817, 7816>>, <<7819, 7818>>, <<7821, 7820>>,
    <<7823, 7822>>, <<7825, 7824>>, <<7827, 7826>>, <<7829, 7828>>, <<7835, 7776>>,
    <<7841, 7840>>, <<7843, 7842>>, <<7845, 7844>>, <<7847, 7846>>, <<7849, 7848>>,
    <<7851, 7850>>, <<7853, 7852>>, <<7855, 7854>>, <<7857, 7856>>, <<7859, 7858>>,
    <<7861, 7860>>, <<7863, 7862>>, <<7865, 7864>>, <<7867, 7866>>, <<7869, 7868>>,
    <<7871, 7870>>, <<7873, 7872>>, <<7875, 7874>>, <<7877, 7876>>, <<7879, 7878>>,
    <<7881, 7880>>, <<7883, 7882>>, <<7885, 7884>>, <<7887, 7886>>, <<7889, 7888>>,
    <<7891, 7890>>, <<7893, 7892>>, <<7895, 7894>>, <<7897, 7896>>, <<7899, 7898>>,
    <<7901, 7900>>, <<7903, 7902>>, <<7905, 7904>>, <<7907, 7906>>, <<7909, 7908>>,
    <<7911, 7910>>, <<7913, 7912>>, <<7915, 7914>>, <<7917, 7916>>, <<7919, 7918>>,
    <<7921, 7920>>, <<7923, 7922>>, <<7925, 7924>>, <<7927, 7926>>, <<7929, 7928>>,
    <<7931, 7930>>, <<7933, 7932>>, <<7935, 7934>>, <<7936, 7944>>, <<7937, 7945>>,
    <<7938, 7946>>, <<7939, 7947>>, <<7940, 7948>>, <<7941, 7949>>, <<7942, 7950>>,
    <<7943, 7951>>, <<7952, 7960>>, <<7953, 7961>>, <<7954, 7962>>, <<7955, 7963>>,
    <<7956, 7964>>, <<7957, 7965>>, <<7968, 7976>>, <<7969, 7977>>, <<7970, 7978>>,
    <<7971, 7979>>, <<7972, 7980>>, <<7973, 7981>>, <<7974, 7982>>, <<7975, 7983>>,
    <<7984, 7992>>, <<7985, 7993>>, <<7986, 7994>>, <<7987, 7995>>, <<7988, 7996>>,
    <<7989, 7997>>, <<7990, 7998>>, <<7991, 7999>>, <<8000, 8008>>, <<8001, 8009>>,
    <<8002, 8010>>, <<8003, 8011>>, <<8004, 8012>>, <<8005, 8013>>, <<8017, 8025>>,
    <<8019, 8027>>, <<8021, 8029>>, <<8023, 8031>>, <<8032, 8040>>, <<8033, 8041>>,
    <<8034, 8042>>, <<8035, 8043>>, <<8036, 8044>>, <<8037, 8045>>, <<8038, 8046>>,
    <<8039, 8047>>, <<8048, 8122>>, <<8049, 8123>>, <<8050, 8136>>, <<8051, 8137>>,
    <<8052, 8138>>, <<8053, 8139>>, <<8054, 8154>>, <<8055, 8155>>, <<8056, 8184>>,
    <<8057, 8185>>, <<8058, 8170>>, <<8059, 8171>>, <<8060, 8186>>, <<8061, 8187>>,
    <<8064, 8072>>, <<8065, 8073>>, <<8066, 8074>>, <<8067, 8075>>, <<8068, 8076>>,
    <<8069, 8077>>, <<8070, 8078>>, <<8071, 8079>>, <<8080, 8088>>, <<8081, 8089>>,
    <<8082, 8090>>, <<8083, 8091>>, <<8084, 8092>>, <<8085, 8093>>, <<8086, 8094>>,
    <<8087, 8095>>, <<8096, 8104>>, <<8097, 8105>>, <<8098, 8106>>, <<8099, 8107>>,
    <<8100, 8108>>, <<8101, 8109>>, <<8102, 8110>>, <<8103, 8111>>, <<8112, 8120>>,
    <<8113, 8121>>, <<8115, 8124>>, <<8126, 921>>, <<8131, 8140>>, <<8144, 8152>>,
    <<8145, 8153>>, <<8160, 8168>>, <<8161, 8169>>, <<8165, 8172>>, <<8179, 8188>>,
    <<8526, 8498>>, <<8560, 8544>>, <<8561, 8545>>, <<8562, 8546>>, <<8563, 8547>>,
    <<8564, 8548>>, <<8565, 8549>>, <<8566, 8550>>, <<8567, 8551>>, <<8568, 8552>>,
    <<8569, 8553>>, <<8570, 8554>>, <<8571, 8555>>, <<8572, 8556>>, <<8573, 8557>>,
    <<8574, 8558>>, <<8575, 8559>>, <<8580, 8579>>, <<9424, 9398>>, <<9425, 9399>>,
    <<9426, 9400>>, <<9427, 9401>>, <<9428, 9402>>, <<9429, 9403>>, <<9430, 9404>>,
    <<9431, 9405>>, <<9432, 9406>>, <<9433, 9407>>, <<9434, 9408>>, <<9435, 9409>>,
    <<9436, 9410>>, <<9437, 9411>>, <<9438, 9412>>, <<9439, 9413>>, <<9440, 9414>>,
    <<9441, 9415>>, <<9442, 9416>>, <<9443, 9417>>, <<9444, 9418>>, <<9445, 9419>>,
    <<9446, 9420>>, <<9447, 9421>>, <<9448, 9422>>, <<9449, 9423>>, <<11312, 11264>>,
    <<11313, 11265>>, <<11314, 11266>>, <<11315, 11267>>, <<11316, 11268>>, <<11317, 11269>>,
    <<11318, 11270>>, <<11319, 11271>>, <<11320, 11272>>, <<11321, 11273>>, <<11322, 11274>>,
    <<11323, 11275>>, <<11324, 11276>>, <<11325, 11277>>, <<11326, 11278>>, <<11327, 11279>>,
    <<11328, 11280>>, <<11329, 11281>>, <<11330, 11282>>, <<11331, 11283>>, <<11332, 11284>>,
    <<11333, 11285>>, <<11334, 11286>>, <<11335, 11287>>, <<11336, 11288>>, <<11337, 11289>>,
    <<11338, 11290>>, <<11339, 11291>>, <<11340, 11292>>, <<11341, 11293>>, <<11342, 11294>>,
    <<11343, 11295>>, <<11344, 11296>>, <<11345, 11297>>, <<11346, 11298>>, <<11347, 11299>>,
    <<11348, 11300>>, <<11349, 11301>>, <<11350, 11302>>, <<11351, 11303>>, <<11352, 11304>>,
    <<11353, 11305>>, <<11354, 11306>>, <<11355, 11307>>, <<11356, 11308>>, <<11357, 11309>>,
    <<11358, 11310>>, <<11361, 11360>>, <<11365, 570>>, <<11366, 574>>, <<11368, 11367>>,
    <<11370, 11369>>, <<11372, 11371>>, <<11379, 11378>>, <<11382, 11381>>, <<11393, 11392>>,
    <<11395, 11394>>, <<11397, 11396>>, <<11399, 11398>>, <<11401, 11400>>, <<11403, 11402>>,
    <<11405, 11404>>, <<11407, 11406>>, <<11409, 11408>>, <<11411, 11410>>, <<11413, 11412>>,
    <<11415, 11414>>, <<11417, 11416>>, <<11419, 11418>>, <<11421, 11420>>, <<11423, 11422>>,
    <<11425, 11424>>, <<11427, 11426>>, <<11429, 11428>>, <<11431, 11430>>, <<11433, 11432>>,
    <<11435, 11434>>, <<11437, 11436>>, <<11439, 11438>>, <<11441, 11440>>, <<11443, 11442>>,
    <<11445, 11444>>, <<11447, 11446>>, <<11449, 11448>>, <<11451, 11450>>, <<11453, 11452>>,
    <<11455, 11454>>, <<11457, 11456>>, <<11459, 11458>>, <<11461, 11460>>, <<11463, 11462>>,
    <<11465, 11464>>, <<11467, 11466>>, <<11469, 11468>>, <<11471, 11470>>, <<11473, 11472>>,
    <<11475, 11474>>, <<11477, 11476>>, <<11479, 11478>>, <<11481, 11480>>, <<11483, 11482>>,
    <<11485, 11484>>, <<11487, 11486>>, <<11489, 11488>>, <<11491, 11490>>, <<11500, 11499>>,
    <<11502, 11501>>, <<11507, 11506>>, <<11520, 4256>>, <<11521, 4257>>, <<11522, 4258>>,
    <<11523, 4259>>, <<11524, 4260>>, <<11525, 4261>>, <<11526, 4262>>, <<11527, 4263>>,
    <<11528, 4264>>, <<11529, 4265>>, <<11530, 4266>>, <<11531, 4267>>, <<11532, 4268>>,
    <<11533, 4269>>, <<11534, 4270>>, <<11535, 4271>>, <<11536, 4272>>, <<11537, 4273>>,
    <<11538, 4274>>, <<11539, 4275>>, <<11540, 4276>>, <<11541, 4277>>, <<11542, 4278>>,
    <<11543, 4279>>, <<11544, 4280>>, <<11545, 4281>>, <<11546, 4282>>, <<11547, 4283>>,
    <<11548, 4284>>, <<11549, 4285>>, <<11550, 4286>>, <<11551, 4287>>, <<11552, 4288>>,
    <<11553, 4289>>, <<11554, 4290>>, <<11555, 4291>>, <<11556, 4292>>, <<11557, 4293>>,
    <<11559, 4295>>, <<11565, 4301>>, <<42561, 42560>>, <<42563, 42562>>, <<42565, 42564>>,
    <<42567, 42566>>, <<42569, 42568>>, <<42571, 42570>>, <<42573, 42572>>, <<42575, 42574>>,
    <<42577, 42576>>, <<42579, 42578>>, <<42581, 42580>>, <<42583, 42582>>, <<42585, 42584>>,
    <<42587, 42586>>, <<42589, 42588>>, <<42591, 42590>>, <<42593, 42592>>, <<42595, 42594>>,
    <<42597, 42596>>, <<42599, 42598>>, <<42601, 42600>>, <<42603, 42602>>, <<42605, 42604>>,
    <<42625, 42624>>, <<42627, 42626>>, <<42629, 42628>>, <<42631, 42630>>, <<42633, 42632>>,
    <<42635, 42634>>, <<42637, 42636>>, <<42639, 42638>>, <<42641, 42640>>, <<42643, 42642>>,
    <<42645, 42644>>, <<42647, 42646>>, <<42649, 42648>>, <<42651, 42650>>, <<42787, 42786>>,
    <<42789, 42788>>, <<42791, 42790>>, <<42793, 42792>>, <<42795, 42794>>, <<42797, 42796>>,
    <<42799, 42798>>, <<42803, 42802>>, <<42805, 42804>>, <<42807, 42806>>, <<42809, 42808>>,
    <<42811, 42810>>, <<42813, 42812>>, <<42815, 42814>>, <<42817, 42816>>, <<42819, 42818>>,
    <<42821, 42820>>, <<42823, 42822>>, <<42825, 42824>>, <<42827, 42826>>, <<42829, 42828>>,
    <<42831, 42830>>, <<42833, 42832>>, <<42835, 42834>>, <<42837, 42836>>, <<42839, 42838>>,
    <<42841, 42840>>, <<42843, 42842>>, <<42845, 42844>>, <<42847, 42846>>, <<42849, 42848>>,
    <<42851, 42850>>, <<42853, 42852>>, <<42855, 42854>>, <<42857, 42856>>, <<42859, 42858>>,
    <<42861, 42860>>, <<42863, 42862>>, <<42874, 42873>>, <<42876, 42875>>, <<42879, 42878>>,
    <<42881, 42880>>, <<42883, 42882>>, <<42885, 42884>>, <<42887, 42886>>, <<42892, 42891>>,
    <<42897, 42896>>, <<42899, 42898>>, <<42900, 42948>>, <<42903, 42902>>, <<42905, 42904>>,
    <<42907, 42906>>, <<42909, 42908>>, <<42911, 42910>>, <<42913, 42912>>, <<42915, 42914>>,
    <<42917, 42916>>, <<42919, 42918>>, <<42921, 42920>>, <<42933, 42932>>, <<42935, 42934>>,
    <<42937, 42936>>, <<42939, 42938>>, <<42941, 42940>>, <<42943, 42942>>, <<42947, 42946>>,
    <<42952, 42951>>, <<42954, 42953>>, <<42998, 42997>>, <<43859, 42931>>, <<43888, 5024>>,
    <<43889, 5025>>, <<43890, 5026>>, <<43891, 5027>>, <<43892, 5028>>, <<43893, 5029>>,
    <<43894, 5030>>, <<43895, 5031>>, <<43896, 5032>>, <<43897, 5033>>, <<43898, 5034>>,
    <<43899, 5035>>, <<43900, 5036>>, <<43901, 5037>>, <<43902, 5038>>, <<43903, 5039>>,
    <<43904, 5040>>, <<43905, 5041>>, <<43906, 5042>>, <<43907, 5043>>, <<43908, 5044>>,
    <<43909, 5045>>, <<43910, 5046>>, <<43911, 5047>>, <<43912, 5048>>, <<43913, 5049>>,
    <<43914, 5050>>, <<43915, 5051>>, <<43916, 5052>>, <<43917, 5053>>, <<43918, 5054>>,
    <<43919, 5055>>, <<43920, 5056>>, <<43921, 5057>>, <<43922, 5058>>, <<43923, 5059>>,
    <<43924, 5060>>, <<43925, 5061>>, <<43926, 5062>>, <<43927, 5063>>, <<43928, 5064>>,
    <<43929, 5065>>, <<43930, 5066>>, <<43931, 5067>>, <<43932, 5068>>, <<43933, 5069>>,
    <<43934, 5070>>, <<43935, 5071>>, <<43936, 5072>>, <<43937, 5073>>, <<43938, 5074>>,
    <<43939, 5075>>, <<43940, 5076>>, <<43941, 5077>>, <<43942, 5078>>, <<43943, 5079>>,
    <<43944, 5080>>, <<43945, 5081>>, <<43946, 5082>>, <<43947, 5083>>, <<43948, 5084>>,
    <<43949, 5085>>, <<43950, 5086>>, <<43951, 5087>>, <<43952, 5088>>, <<43953, 5089>>,
    <<43954, 5090>>, <<43955, 5091>>, <<43956, 5092>>, <<43957, 5093>>, <<43958, 5094>>,
    <<43959, 5095>>, <<43960, 5096>>, <<43961, 5097>>, <<43962, 5098>>, <<43963, 5099>>,
    <<43964, 5100>>, <<43965, 5101>>, <<43966, 5102>>, <<43967, 5103>>, <<65345, 65313>>,
    <<65346, 65314>>, <<65347, 65315>>, <<65348, 65316>>, <<65349, 65317>>, <<65350, 65318>>,
    <<65351, 65319>>, <<65352, 65320>>, <<65353, 65321>>, <<65354, 65322>>, <<65355, 65323>>,
    <<65356, 65324>>, <<65357, 65325>>, <<65358, 65326>>, <<65359, 65327>>, <<65360, 65328>>,
    <<65361, 65329>>, <<65362, 65330>>, <<65363, 65331>>, <<65364, 65332>>, <<65365, 65333>>,
    <<65366, 65334>>, <<65367, 65335>>, <<65368, 65336>>, <<65369, 65337>>, <<65370, 65338>>
    >>

\* binary_search_by that gives up with one pair left to look at.
RECURSIVE BinarySearchEndingEarly(_, _, _)
BinarySearchEndingEarly(unit, lo, hi) ==
    IF lo >= hi THEN 0
    ELSE IF BMP_UPPERCASE_TABLE[(lo + hi) \div 2][1] = unit
    THEN (lo + hi) \div 2
    ELSE IF BMP_UPPERCASE_TABLE[(lo + hi) \div 2][1] < unit
    THEN BinarySearchEndingEarly(unit, (lo + hi) \div 2 + 1, hi)
    ELSE BinarySearchEndingEarly(unit, lo, (lo + hi) \div 2 - 1)

\* binary_search_by of a slice, on the keys of the table from index lo up
\* to index hi: the index found, or 0.
RECURSIVE binary_search_by(_, _, _)
binary_search_by(unit, lo, hi) ==
    IF lo > hi THEN 0
    ELSE IF BMP_UPPERCASE_TABLE[(lo + hi) \div 2][1] = unit
    THEN (lo + hi) \div 2
    ELSE IF BMP_UPPERCASE_TABLE[(lo + hi) \div 2][1] < unit
    THEN binary_search_by(unit, (lo + hi) \div 2 + 1, hi)
    ELSE binary_search_by(unit, lo, (lo + hi) \div 2 - 1)

UppercaseAt(unit, index) ==
    IF index # 0 THEN BMP_UPPERCASE_TABLE[index][2] ELSE unit

\* utf16_code_unit_to_uppercase that also folds the low surrogate of a small
\* Deseret letter to that of its capital.
UppercaseWithDeseret(unit) ==
    IF unit \in 56360..56399 THEN unit - 40
    ELSE UppercaseAt(unit, binary_search_by(unit, 1, Len(BMP_UPPERCASE_TABLE)))

utf16_code_unit_to_uppercase(unit) ==
    UppercaseAt(unit, binary_search_by(unit, 1, Len(BMP_UPPERCASE_TABLE)))

\* The &'h [u8] a name holds.  A name the comparator is given is made over
\* its bytes themselves, Latin1(bytes) or Utf16LE(bytes).
NameBytes(n) == n.range

\* A host string (&str): the sequence of its characters, each a Unicode
\* scalar value.
Str(chars) == [kind |-> "str", chars |-> chars]

\* str::encode_utf16: one code unit for a character of the BMP, a high and
\* a low surrogate for any other.
RECURSIVE encode_utf16(_)
encode_utf16(chars) ==
    IF chars = <<>> THEN <<>>
    ELSE IF Head(chars) < 65536
    THEN <<Head(chars)>> \o encode_utf16(Tail(chars))
    ELSE <<55296 + ((Head(chars) - 65536) \div 1024),
           56320 + ((Head(chars) - 65536) % 1024)>>
         \o encode_utf16(Tail(chars))

\* NtHiveNameString::latin1_iter: each byte as a u16
latin1_iter(n) ==
    IF n.kind = "Latin1" THEN NameBytes(n) ELSE Panic(1288)

\* utf16le_iter that takes a last, single byte for a code unit.
Utf16LEIterOfAllBytes(n) ==
    IF n.kind = "Latin1" THEN Panic(1294)
    ELSE [k \in 1..((Len(NameBytes(n)) + 1) \div 2) |->
            NameBytes(n)[2 * k - 1]
            + 256 * (IF 2 * k <= Len(NameBytes(n)) THEN NameBytes(n)[2 * k]
                     ELSE 0)]

\* NtHiveNameString::utf16le_iter: chunks_exact(2), each chunk a u16 in
\* little-endian order
utf16le_iter(n) ==
    IF n.kind = "Latin1" THEN Panic(1294)
    ELSE [k \in 1..(Len(NameBytes(n)) \div 2) |->
            NameBytes(n)[2 * k - 1] + 256 * NameBytes(n)[2 * k]]

\* u16::cmp
OrderingOf(x, y) == IF x < y THEN "Less" ELSE IF x > y THEN "Greater" ELSE "Equal"

\* cmp_iter that compares the code units as they are.
RECURSIVE CmpIterUnfolded(_, _)
CmpIterUnfolded(this_iter, other_iter) ==
    IF this_iter = <<>> /\ other_iter = <<>> THEN "Equal"
    ELSE IF other_iter = <<>> THEN "Greater"
    ELSE IF this_iter = <<>> THEN "Less"
    ELSE IF Head(this_iter) # Head(other_iter)
    THEN OrderingOf(Head(this_iter), Head(other_iter))
    ELSE CmpIterUnfolded(Tail(this_iter), Tail(other_iter))

\* cmp_iter that takes the operand with units left for the lesser one.
RECURSIVE CmpIterLongerLess(_, _)
CmpIterLongerLess(this_iter, other_iter) ==
    IF this_iter = <<>> /\ other_iter = <<>> THEN "Equal"
    ELSE IF other_iter = <<>> THEN "Less"
    ELSE IF this_iter = <<>> THEN "Greater"
    ELSE IF Head(this_iter) # Head(other_iter)
            /\ utf16_code_unit_to_uppercase(Head(this_iter))
                   # utf16_code_unit_to_uppercase(Head(other_iter))
    THEN OrderingOf(utf16_code_unit_to_uppercase(Head(this_iter)),
                    utf16_code_unit_to_uppercase(Head(other_iter)))
    ELSE CmpIterLongerLess(Tail(this_iter), Tail(other_iter))

RECURSIVE cmp_iter(_, _)

\* cmp_iter, the arm of two code units, folded
CmpUppers(this_upper, other_upper, this_iter, other_iter) ==
    IF this_upper # other_upper THEN OrderingOf(this_upper, other_upper)
    ELSE cmp_iter(Tail(this_iter), Tail(other_iter))

\* NtHiveNameString::cmp_iter
cmp_iter(this_iter, other_iter) ==
    IF this_iter = <<>> /\ other_iter = <<>> THEN "Equal"
    ELSE IF other_iter = <<>> THEN "Greater"
    ELSE IF this_iter = <<>> THEN "Less"
    ELSE CmpUppers(utf16_code_unit_to_uppercase(Head(this_iter)),
                   utf16_code_unit_to_uppercase(Head(other_iter)),
                   this_iter, other_iter)

\* cmp_self_and_str that compares the host string to the name.
CmpSelfAndStrSwapped(lhs, rhs) ==
    IF lhs.kind = "Latin1"
    THEN cmp_iter(encode_utf16(rhs.chars), latin1_iter(lhs))
    ELSE cmp_iter(encode_utf16(rhs.chars), utf16le_iter(lhs))

\* NtHiveNameString::cmp_self_and_str
cmp_self_and_str(lhs, rhs) ==
    IF lhs.kind = "Latin1"
    THEN cmp_iter(latin1_iter(lhs), encode_utf16(rhs.chars))
    ELSE cmp_iter(utf16le_iter(lhs), encode_utf16(rhs.chars))

\* NtHiveNameString::cmp_str_and_self
cmp_str_and_self(lhs, rhs) ==
    IF rhs.kind = "Latin1"
    THEN cmp_iter(encode_utf16(lhs.chars), latin1_iter(rhs))
    ELSE cmp_iter(encode_utf16(lhs.chars), utf16le_iter(rhs))

\* cmp that compares two names by their code units as they are.
CmpOfRawUnits(self, other) ==
    CmpIterUnfolded(
        IF self.kind = "Latin1" THEN latin1_iter(self) ELSE utf16le_iter(self),
        IF other.kind = "Latin1" THEN latin1_iter(other)
        ELSE utf16le_iter(other))

\* Ord::cmp of two names
cmp(self, other) ==
    IF self.kind = "Latin1" /\ other.kind = "Latin1"
    THEN cmp_iter(latin1_iter(self), latin1_iter(other))
    ELSE IF self.kind = "Latin1"
    THEN cmp_iter(latin1_iter(self), utf16le_iter(other))
    ELSE IF other.kind = "Latin1"
    THEN cmp_iter(utf16le_iter(self), latin1_iter(other))
    ELSE cmp_iter(utf16le_iter(self), utf16le_iter(other))

\* len that counts code units.
LenInCodeUnits(n) ==
    IF n.kind = "Latin1" THEN Len(NameBytes(n)) ELSE Len(NameBytes(n)) \div 2

\* NtHiveNameString::len and is_empty
len(n) == Len(NameBytes(n))

is_empty(n) == len(n) = 0

(***************************************************************************)
(* The blobs checked.  The parameters of a blob are the bytes that vary:   *)
(* the fields of the vk header, the code units of the small data cell, the *)
(* db header and the code units around the boundary of the two segments.   *)
(***************************************************************************)
\* The most code units of a string payload in the small data cell, and the
\* most next() calls made on one iterator.
MaxUnits == 4

MaxNextCalls == 4

\* A data_size field: the size, and the inline bit in its top byte.
SizeField(inline, n) ==
    [U32ToLe(n) EXCEPT ![4] = @ + (IF inline THEN 128 ELSE 0)]

BaseParams ==
    [signature     |-> VkSignature,
     name_length   |-> U16ToLe(2),
     data_size     |-> SizeField(TRUE, 0),
     data_offset   |-> U32ToLe(0),
     data_type     |-> U32ToLe(3),
     flags         |-> U16ToLe(1),
     name          |-> <<97, 98>>,
     small         |-> <<>>,
     db_signature  |-> DbSignature,
     segment_count |-> 2,
     seg1_offset   |-> Seg1CellOffset,
     first         |-> 97,
     edge          |-> <<97, 97, 97>>]

\* Sizes on both sides of every threshold of data(): 4 for inline data,
\* the length of the cells, BIG_DATA_SEGMENT_SIZE.
DispatchSizes ==
    (0..6) \cup {8, 12, 13, BIG_DATA_SEGMENT_SIZE - 1, BIG_DATA_SEGMENT_SIZE,
                 BIG_DATA_SEGMENT_SIZE + 1, BIG_DATA_SEGMENT_SIZE + 12,
                 BIG_DATA_SEGMENT_SIZE + 13, 2147483647}

\* Data offsets of cells, of a free cell, of no cell, and past the blob.
DispatchOffsets ==
    {U32ToLe(SmallCellOffset), U32ToLe(DbCellOffset), U32ToLe(Seg0CellOffset),
     U32ToLe(FreeCellOffset), U32ToLe(SmallCellOffset + 2), U32ToLe(HiveLen),
     U32ToLe(0), <<255, 255, 255, 255>>}

DispatchHives ==
    {MakeHive([BaseParams EXCEPT
                  !.data_size = SizeField(i, n), !.data_offset = o,
                  !.db_signature = g, !.segment_count = c,
                  !.small = <<97, 0, 97, 97>>]) :
        i \in BOOLEAN, n \in DispatchSizes, o \in DispatchOffsets,
        g \in {DbSignature, <<120, 120>>}, c \in {1, 2}}

\* Every supported type code, the first unsupported ones, and codes that
\* differ from a supported one in a higher byte only.
TypeCodes ==
    {U32ToLe(k) : k \in 0..13}
    \cup {<<4, 1, 0, 0>>, <<11, 0, 1, 0>>, <<1, 0, 0, 1>>, <<7, 0, 0, 128>>,
          <<255, 255, 255, 255>>}

TypeHives ==
    {MakeHive([BaseParams EXCEPT
                  !.data_type = t, !.data_size = z[1], !.data_offset = z[2],
                  !.small = <<65535, 65535, 65535, 65535>>]) :
        t \in TypeCodes,
        z \in {<<SizeField(TRUE, 4), U32ToLe(42)>>,
               <<SizeField(TRUE, 3), U32ToLe(42)>>,
               <<SizeField(TRUE, 5), U32ToLe(42)>>,
               <<SizeField(FALSE, 4), U32ToLe(SmallCellOffset)>>,
               <<SizeField(FALSE, 8), U32ToLe(SmallCellOffset)>>,
               <<SizeField(FALSE, 8), U32ToLe(FreeCellOffset)>>,
               <<SizeField(FALSE, BIG_DATA_SEGMENT_SIZE + 2),
                 U32ToLe(DbCellOffset)>>}}

\* The bytes of numbers: 42, the sign bit, all ones.
NumBytes == {0, 42, 128, 255}

NumUnits == {0, 42, 32769, 65535}

DWordHives ==
    {MakeHive([BaseParams EXCEPT
                  !.data_type = U32ToLe(t), !.data_size = SizeField(TRUE, 4),
                  !.data_offset = <<b[1], b[2], b[3], b[4]>>]) :
        t \in {4, 5}, b \in [1..4 -> NumBytes]}

QWordHives ==
    {MakeHive([BaseParams EXCEPT
                  !.data_type = U32ToLe(11), !.data_size = SizeField(FALSE, n),
                  !.data_offset = U32ToLe(SmallCellOffset),
                  !.small = <<u[1], u[2], u[3], u[4]>>]) :
        n \in {7, 8, 9}, u \in [1..4 -> NumUnits]}

\* The sequences of at most n code units.
UnitSeqs(n) == UNION {[1..k -> Units] : k \in 0..n}

\* String payloads in the small data cell: every sequence of at most
\* MaxUnits code units, alone or with one more byte, and in the data_offset
\* field: every sequence of at most two code units.
SmallStringHives(types) ==
    {MakeHive([BaseParams EXCEPT
                  !.data_type = U32ToLe(t),
                  !.data_size = SizeField(FALSE, 2 * Len(u) + odd),
                  !.data_offset = U32ToLe(SmallCellOffset),
                  !.small = u]) :
        t \in types, odd \in {0, 1}, u \in UnitSeqs(MaxUnits)}

InlineStringHives(types) ==
    {MakeHive([BaseParams EXCEPT
                  !.data_type = U32ToLe(t),
                  !.data_size = SizeField(TRUE, 2 * Len(u) + odd),
                  !.data_offset = Pad(UnitBytes(u), 4)]) :
        t \in types, odd \in {0, 1}, u \in UnitSeqs(2)}

\* The code units around the boundary of the segments: letters, a NUL or a
\* surrogate on either side, and a surrogate pair across it.
Edges ==
    {<<97, 97, 97>>, <<0, 97, 97>>, <<97, 0, 97>>, <<97, 97, 0>>,
     <<55357, 56832, 97>>, <<55357, 97, 0>>, <<97, 56832, 97>>,
     <<0, 0, 97>>}

\* String payloads in Big Data that end in the second segment, and ones
\* whose second segment is no cell of the needed length.
BigStringHives(types) ==
    {MakeHive([BaseParams EXCEPT
                  !.data_type = U32ToLe(t),
                  !.data_size = SizeField(FALSE, BIG_DATA_SEGMENT_SIZE + 6),
                  !.data_offset = U32ToLe(DbCellOffset),
                  !.edge = e]) :
        t \in types, e \in Edges}
    \cup
    {MakeHive([BaseParams EXCEPT
                  !.data_type = U32ToLe(t),
                  !.data_size = SizeField(FALSE, BIG_DATA_SEGMENT_SIZE + n),
                  !.data_offset = U32ToLe(DbCellOffset),
                  !.first = 0, !.seg1_offset = o]) :
        t \in types, n \in {5, 13},
        o \in {Seg1CellOffset, FreeCellOffset, HiveLen}}

\* A vk cell with another signature.
SignatureHives ==
    {MakeHive([BaseParams EXCEPT !.signature = g]) :
        g \in {<<120, 120>>, <<118, 120>>}}

\* Name lengths up to and past the bytes of the cell after the header, with
\* every flag bit around VALUE_COMP_NAME.
NameLengths == {0, 1, 2, 3, 7, 8, 9, 65535}

NameFlags == {0, 1, 2, 3, 65534, 65535}

NameHives ==
    {MakeHive([BaseParams EXCEPT
                  !.name_length = U16ToLe(n), !.flags = U16ToLe(f),
                  !.name = <<97, 98, 99, 100, 101, 102, 103, 104>>]) :
        n \in NameLengths, f \in NameFlags}

Hives ==
    DispatchHives \cup TypeHives \cup DWordHives \cup QWordHives
    \cup SmallStringHives({1, 2}) \cup InlineStringHives({1, 2})
    \cup BigStringHives({1, 2}) \cup SignatureHives \cup NameHives

MultiSZHives ==
    SmallStringHives({7}) \cup InlineStringHives({7, 1})
    \cup BigStringHives({7})

\* The longest value list.
MaxValues == 3

\* The cells a value list points to: the vk cell, a cell shorter than a
\* KeyValueHeader, and a long cell that is not a vk cell.
ValueCells == {VkCellOffset, SmallCellOffset, Seg0CellOffset}

RECURSIVE ValueLists(_)
ValueLists(n) ==
    IF n = 0 THEN {<<>>}
    ELSE ValueLists(n - 1)
         \cup {Append(l, c) : l \in {m \in ValueLists(n - 1) : Len(m) = n - 1},
                              c \in ValueCells}

\* Blobs with a value list: the vk cell with the signature vk, xx or vx, the
\* long cell beginning with letters or with the bytes of "vk".
ValueHives ==
    {MakeHive([BaseParams EXCEPT !.signature = g, !.first = u])
         @@ [value_list |-> l] :
        g \in {VkSignature, <<120, 120>>, <<118, 120>>},
        u \in {97, 118 + 256 * 107},
        l \in ValueLists(MaxValues)}

\* The most elements of an Index Root.
MaxElements == 3

\* The hive bin of an Index Root blob, by offsets relative to the hive bin:
\* the Index Root at 0 with room for its elements, an empty Index Leaf, an
\* Index Leaf of two items, a Fast Leaf of one, a Hash Leaf of two, a Key
\* Node signature, and at the end of the blob the header of an Index Root
\* of one element, without the element.
LiEmptyOffset == IndexRootHeaderSize + MaxElements * IndexRootElementSize

Li2Offset == LiEmptyOffset + 4

Lf1Offset == Li2Offset + 4 + 2 * 4

Lh2Offset == Lf1Offset + 4 + 8

NkOffset == Lh2Offset + 4 + 2 * 8

TailRiOffset == NkOffset + 4

BinLen == TailRiOffset + IndexRootHeaderSize

\* The Key Node offsets the items of a leaf are written with.
LeafKeys(offset) ==
    IF offset = Li2Offset THEN <<600, 700>>
    ELSE IF offset = Lf1Offset THEN <<800>>
    ELSE IF offset = Lh2Offset THEN <<900, 65541>>
    ELSE <<>>

RECURSIVE LeafItems(_, _)
LeafItems(keys, hint) ==
    IF keys = <<>> THEN <<>>
    ELSE U32ToLe(Head(keys)) \o hint \o LeafItems(Tail(keys), hint)

LeafBytes(signature, keys, hint) ==
    signature \o U16ToLe(Len(keys)) \o LeafItems(keys, hint)

RECURSIVE ElementBytes(_)
ElementBytes(elements) ==
    IF elements = <<>> THEN <<>>
    ELSE U32ToLe(Head(elements)) \o ElementBytes(Tail(elements))

BinBytes(elements) ==
    Pad(RiSignature \o U16ToLe(Len(elements)) \o ElementBytes(elements),
        LiEmptyOffset)
    \o LeafBytes(LiSignature, <<>>, <<>>)
    \o LeafBytes(LiSignature, LeafKeys(Li2Offset), <<>>)
    \o LeafBytes(LfSignature, LeafKeys(Lf1Offset), <<120, 120, 120, 120>>)
    \o LeafBytes(LhSignature, LeafKeys(Lh2Offset), <<120, 120, 120, 120>>)
    \o <<110, 107, 0, 0>>
    \o RiSignature \o U16ToLe(1)

\* What an element points to: a leaf of each kind, a Key Node, the Index
\* Root itself, the last byte of the blob, and past the blob.
ElementTargets ==
    {LiEmptyOffset, Li2Offset, Lf1Offset, Lh2Offset, NkOffset, 0,
     BinLen - 1, BinLen + 4}

RECURSIVE ElementLists(_)
ElementLists(n) ==
    IF n = 0 THEN {<<>>}
    ELSE ElementLists(n - 1)
         \cup {Append(l, e) : l \in {m \in ElementLists(n - 1) : Len(m) = n - 1},
                              e \in ElementTargets}

IndexRootHives ==
    {[hivebin_offset |-> HiveDataOrigin, elements |-> l, bin |-> BinBytes(l)] :
        l \in ElementLists(MaxElements)}

\* The offsets IndexRootIter::new is called with: the Index Root, the
\* Index Root at the end of the blob, a Key Node, the last byte of the
\* blob, and past the blob.
RootOffsets == {0, TailRiOffset, NkOffset, BinLen - 1, BinLen + 4}

\* The most next() calls made on one IndexRootIter.
MaxRootCalls == 2 * MaxElements + 2

\* The most code units of a name made of every choice of letters.
MaxNameUnits == 2

\* The names and host strings compared, by the code units they are written
\* with: every sequence of 'a' and 'B' of at most MaxNameUnits units, and
\* "Hi" in three cases, 'A', the Latin-1 letters O and o with diaeresis, y
\* with diaeresis and its capital, which is no Latin-1 letter, full-width A
\* and a, the Deseret letters long H and small long H, the Gothic letter
\* Bairkan, and a single high and a single low surrogate.
WrittenNames ==
    UNION {[1..k -> {97, 66}] : k \in 0..MaxNameUnits}
    \cup {<<72, 105>>, <<104, 105>>, <<72, 73>>, <<65>>, <<214>>, <<246>>,
          <<255>>, <<376>>, <<65313>>, <<65345>>, <<55297, 56336>>,
          <<55297, 56376>>, <<55296, 57137>>, <<55296>>, <<56336>>}

\* The characters a well-formed sequence of code units encodes.
RECURSIVE CharsOfUnits(_)
CharsOfUnits(us) ==
    IF us = <<>> THEN <<>>
    ELSE IF IsHighSurrogate(us[1])
    THEN <<65536 + (us[1] - 55296) * 1024 + (us[2] - 56320)>>
         \o CharsOfUnits(SubSeq(us, 3, Len(us)))
    ELSE <<us[1]>> \o CharsOfUnits(Tail(us))

WellFormed(us) ==
    \A k \in 1..Len(us) :
        /\ IsHighSurrogate(us[k]) => (k < Len(us) /\ IsLowSurrogate(us[k + 1]))
        /\ IsLowSurrogate(us[k]) => (k > 1 /\ IsHighSurrogate(us[k - 1]))

\* An operand: the code units it is written with (p), and the name or the
\* host string (v).  A Utf16LE name may end with one byte more.
Latin1Operands ==
    {[p |-> [units |-> us, more |-> <<>>], v |-> Latin1(us)] :
        us \in {w \in WrittenNames : \A k \in 1..Len(w) : w[k] < 256}}

Utf16LEOperands ==
    {[p |-> [units |-> us, more |-> <<>>], v |-> Utf16LE(UnitBytes(us))] :
        us \in WrittenNames}
    \cup {[p |-> [units |-> us, more |-> <<97>>],
           v |-> Utf16LE(UnitBytes(us) \o <<97>>)] :
            us \in UNION {[1..k -> {97, 66}] : k \in 0..(MaxNameUnits - 1)}}

StrOperands ==
    {[p |-> [units |-> us, more |-> <<>>], v |-> Str(CharsOfUnits(us))] :
        us \in {w \in WrittenNames : WellFormed(w)}}

NameOperands == Latin1Operands \cup Utf16LEOperands

Operands == NameOperands \cup StrOperands

\* Every u16.
CodeUnits == 0..65535

\* The values offset_of_field(&data) can take in dword_data and qword_data.
StackOffsets == {0, 1}

(***************************************************************************)
(* The state machine: the blob is chosen, the Key Value view is made over  *)
(* the vk cell, and then the accessors are called in any order.            *)
(***************************************************************************)
Fresh ==
    /\ key_value = NoKeyValue
    /\ op = "none"
    /\ result = None
    /\ strings = NoIter
    /\ yielded = <<>>
    /\ index_root = None
    /\ operands = <<>>

Init == hive \in Hives /\ Fresh

\* KeyValue::new on the cell the value list has resolved.
NewAt(h, cell) == IF IsErr(cell) THEN cell ELSE KeyValue_new(h, cell.val)

NewKeyValue(h) ==
    NewAt(h, cell_range_from_data_offset(h, U32FromLe(U32ToLe(VkCellOffset))))

Made(made) ==
    /\ result' = made
    /\ key_value' = IF IsOk(made) THEN made.val ELSE NoKeyValue

\* The value list resolves the vk cell and calls KeyValue::new on it.
New ==
    /\ op = "none"
    /\ Made(NewKeyValue(hive))
    /\ op' = "new"
    /\ UNCHANGED <<hive, strings, yielded, index_root, operands>>

Call(method, value) ==
    /\ key_value # NoKeyValue
    /\ op' = method
    /\ result' = value
    /\ UNCHANGED <<hive, key_value, strings, yielded, index_root, operands>>

Data == Call("data", data(hive, key_value))

DataSize == Call("data_size", Ok(data_size(hive, key_value)))

DataType == Call("data_type", data_type(hive, key_value))

Name == Call("name", name(hive, key_value))

DWordData ==
    \E stack_offset \in StackOffsets :
        Call("dword_data", dword_data(hive, key_value, stack_offset))

QWordData ==
    \E stack_offset \in StackOffsets :
        Call("qword_data", qword_data(hive, key_value, stack_offset))

StringData == Call("string_data", string_data(hive, key_value))

MadeStrings(made) ==
    /\ result' = IF IsOk(made) THEN Ok("RegMultiSZStrings") ELSE made
    /\ strings' = IF IsOk(made) THEN made.val ELSE NoIter

\* multi_string_data() hands out a new iterator.
MultiStringData ==
    /\ key_value # NoKeyValue
    /\ MadeStrings(multi_string_data(hive, key_value))
    /\ op' = "multi_string_data"
    /\ yielded' = <<>>
    /\ UNCHANGED <<hive, key_value, index_root, operands>>

Yielded(n) ==
    /\ result' = n.item
    /\ strings' = n.iter
    /\ yielded' = Append(yielded, n.item)

\* One next() call on the iterator.
StringsNext ==
    /\ strings.made
    /\ Len(yielded) < MaxNextCalls
    /\ Yielded(RegMultiSZStrings_next(hive, strings, <<>>))
    /\ op' = "next"
    /\ UNCHANGED <<hive, key_value, index_root, operands>>

\* The accessors of a Key Value.
Next ==
    \/ New
    \/ Data
    \/ DataSize
    \/ DataType
    \/ Name
    \/ DWordData
    \/ QWordData
    \/ StringData
    \/ MultiStringData

\* KeyValues::next: the next data offset of the value list is resolved to
\* its cell and KeyValue::new is called on it; the element is its result.
NewValueAt(h, data_offset) ==
    NewAt(h, cell_range_from_data_offset(h, U32FromLe(U32ToLe(data_offset))))

ValueMade(made) ==
    /\ Made(made)
    /\ yielded' = Append(yielded, made)

ValuesNext ==
    /\ Len(yielded) < Len(hive.value_list)
    /\ ValueMade(NewValueAt(hive, hive.value_list[Len(yielded) + 1]))
    /\ op' = "new"
    /\ UNCHANGED <<hive, strings, index_root, operands>>

\* IndexRootIter::new, when it returns
IndexRootMade(made) ==
    /\ result' = IF IsOk(made) THEN Ok("IndexRootIter") ELSE made
    /\ index_root' = IF IsOk(made) THEN Some(made.val) ELSE None
    /\ op' = IF IsOk(made) THEN "new" ELSE "panic"

IndexRootNew ==
    /\ op = "none"
    /\ \E offset \in RootOffsets :
          IndexRootMade(IndexRootIter_new(hive, offset))
    /\ UNCHANGED <<hive, key_value, strings, yielded, operands>>

IndexRootYielded(n) ==
    IF IsPanic(n.item)
    THEN /\ result' = n.item
         /\ op' = "panic"
         /\ index_root' = None
         /\ UNCHANGED yielded
    ELSE /\ result' = n.item
         /\ op' = "next"
         /\ index_root' = Some(n.iter)
         /\ yielded' = Append(yielded, n.item)

\* One next() call on the iterator.
IndexRootNext ==
    /\ index_root # None
    /\ Len(yielded) < MaxRootCalls
    /\ IndexRootYielded(IndexRootIter_next(hive, index_root.val))
    /\ UNCHANGED <<hive, key_value, strings, operands>>

\* utf16_code_unit_to_uppercase of the code unit chosen.
Uppercase ==
    /\ op = "none"
    /\ op' = "uppercase"
    /\ result' = utf16_code_unit_to_uppercase(operands[1])
    /\ UNCHANGED <<hive, key_value, strings, yielded, index_root, operands>>

\* A call of a function of string.rs on the operands.
Called(method, value) ==
    /\ op = "none"
    /\ op' = method
    /\ result' = value
    /\ UNCHANGED <<hive, key_value, strings, yielded, index_root, operands>>

\* name.cmp(&name), name.partial_cmp(str) and str.partial_cmp(&name)
Cmp ==
    /\ operands[1] \in NameOperands /\ operands[2] \in NameOperands
    /\ Called("cmp", cmp(operands[1].v, operands[2].v))

CmpSelfAndStr ==
    /\ operands[1] \in NameOperands /\ operands[2] \in StrOperands
    /\ Called("cmp_self_and_str",
              cmp_self_and_str(operands[1].v, operands[2].v))

CmpStrAndSelf ==
    /\ operands[1] \in StrOperands /\ operands[2] \in NameOperands
    /\ Called("cmp_str_and_self",
              cmp_str_and_self(operands[1].v, operands[2].v))

\* name.len() and name.is_empty() of the first operand
NameLen ==
    /\ operands[1] \in NameOperands
    /\ Called("len", len(operands[1].v))

IsEmpty ==
    /\ operands[1] \in NameOperands
    /\ Called("is_empty", is_empty(operands[1].v))

Spec == Init /\ [][Next]_vars

\* The life of a RegMultiSZStrings iterator.
InitMultiSZ == hive \in MultiSZHives /\ Fresh

NextMultiSZ ==
    \/ New
    \/ MultiStringData
    \/ StringsNext

SpecMultiSZ == InitMultiSZ /\ [][NextMultiSZ]_vars

\* The values of a key: the elements of its value list, in order.
InitValues == hive \in ValueHives /\ Fresh

NextValues == ValuesNext

SpecValues == InitValues /\ [][NextValues]_vars

\* The life of an IndexRootIter.
InitIndexRoot == hive \in IndexRootHives /\ Fresh

NextIndexRoot ==
    \/ IndexRootNew
    \/ IndexRootNext

SpecIndexRoot == InitIndexRoot /\ [][NextIndexRoot]_vars

\* No blob, no view and no iterator: the functions of string.rs take their
\* operands only.
FreshOperands ==
    /\ hive = <<>>
    /\ key_value = NoKeyValue
    /\ op = "none"
    /\ result = None
    /\ strings = NoIter
    /\ yielded = <<>>
    /\ index_root = None

\* The folding of one code unit.
InitUppercase == FreshOperands /\ \E unit \in CodeUnits : operands = <<unit>>

NextUppercase == Uppercase

SpecUppercase == InitUppercase /\ [][NextUppercase]_vars

\* The comparator: two operands, one of them a name at least.
InitNames ==
    /\ FreshOperands
    /\ \E a \in Operands, b \in Operands :
          /\ ~(a \in StrOperands /\ b \in StrOperands)
          /\ operands = <<a, b>>

NextNames ==
    \/ Cmp
    \/ CmpSelfAndStr
    \/ CmpStrAndSelf
    \/ NameLen
    \/ IsEmpty

SpecNames == InitNames /\ [][NextNames]_vars

\* The two decoders of text: string_data() and the iterator of
\* multi_string_data(), over payloads with surrogates in every place.
SurrogateEdges ==
    {<<55357, 55357, 56832>>, <<56832, 55357, 56832>>, <<55357, 56832, 56832>>,
     <<56832, 56832, 97>>, <<55357, 55357, 97>>, <<97, 55357, 56832>>}

DecodingHives ==
    SmallStringHives({1, 7}) \cup BigStringHives({1, 7})
    \cup {MakeHive([BaseParams EXCEPT
                      !.data_type = U32ToLe(t),
                      !.data_size = SizeField(FALSE, BIG_DATA_SEGMENT_SIZE + 6),
                      !.data_offset = U32ToLe(DbCellOffset),
                      !.edge = e]) :
              t \in {1, 7}, e \in SurrogateEdges}

InitDecoding == hive \in DecodingHives /\ Fresh

NextDecoding ==
    \/ New
    \/ StringData
    \/ MultiStringData
    \/ StringsNext

SpecDecoding == InitDecoding /\ [][NextDecoding]_vars

(***************************************************************************)
(* The value as it was written into the blob, read off the parameters of   *)
(* the blob and not through the accessors.                                 *)
(***************************************************************************)
WrittenInline == hive.p.data_size[4] >= 128

\* The low 31 bits of the data_size field.
WrittenSize ==
    hive.p.data_size[1] + 256 * hive.p.data_size[2]
    + 65536 * hive.p.data_size[3] + 16777216 * (hive.p.data_size[4] % 128)

\* The data_type field as a u32 in limbs.
WrittenCode ==
    [lo |-> hive.p.data_type[1] + 256 * hive.p.data_type[2],
     hi |-> hive.p.data_type[3] + 256 * hive.p.data_type[4]]

WrittenSupported == WrittenCode.hi = 0 /\ WrittenCode.lo <= 11

\* The REG_* type of the codes 0..=11, "unsupported" for every other code.
WrittenType ==
    IF WrittenSupported
    THEN <<"RegNone", "RegSZ", "RegExpandSZ", "RegBinary", "RegDWord",
           "RegDWordBigEndian", "RegLink", "RegMultiSZ", "RegResourceList",
           "RegFullResourceDescriptor", "RegResourceRequirementsList",
           "RegQWord">>[WrittenCode.lo + 1]
    ELSE "unsupported"

\* Where the data_offset field of the vk cell's header lies in the blob.
DataOffsetFieldAt == VkCellOffset + CellHeaderSize + OffsetOfDataOffset

\* What resolving the data_offset field gives.
ResolvedCell ==
    cell_range_from_data_offset(hive, U32FromLe(hive.p.data_offset))

\* What data() gives for the value, and its bytes when it is Small.
ValueData == data(hive, key_value)

SmallData == IsOk(ValueData) /\ ValueData.val.kind = "Small"

BigValueData == IsOk(ValueData) /\ ValueData.val.kind = "Big"

SmallBytes == Slice(hive, ValueData.val.range)

\* C1: data() of a value with the inline bit set and at most 4 in the low
\* 31 bits of data_size is Small and holds exactly the first `size` bytes of
\* the header's own data_offset field, whatever that field resolves to;
\* with more than 4 in the low 31 bits it is an InvalidSizeField error.
C1_InlineData ==
    (op = "data" /\ WrittenInline) =>
        IF WrittenSize <= 4
        THEN /\ result = Ok(Small(Range(DataOffsetFieldAt,
                                        DataOffsetFieldAt + WrittenSize)))
             /\ Slice(hive, result.val.range)
                    = SubSeq(hive.p.data_offset, 1, WrittenSize)
        ELSE IsErr(result) /\ result.kind = "InvalidSizeField"

\* Four inline bytes are returned although the field they lie in resolves
\* to no cell.
C1_Witness ==
    /\ op = "data" /\ WrittenInline /\ WrittenSize = 4
    /\ IsErr(ResolvedCell)
    /\ IsOk(result)
    /\ Slice(hive, result.val.range) = hive.p.data_offset

\* C2: data() of a value with the inline bit clear dispatches on the
\* declared size alone: a successful result is Small exactly when the size
\* is at most 16344; up to 16344 the result is the first `size` bytes of the
\* cell at data_offset whenever that cell has them; from 16345 on the cell
\* is read as a Big Data structure: a cell without the db signature is
\* refused, and a db structure of enough segments gives Big.
C2_Dispatch ==
    (op = "data" /\ ~WrittenInline) =>
        /\ IsOk(result) =>
               (result.val.kind = "Small" <=> WrittenSize <= 16344)
        /\ IsOk(result) =>
               (result.val.kind = "Big" <=> WrittenSize >= 16345)
        /\ (/\ WrittenSize <= 16344
            /\ IsOk(ResolvedCell)
            /\ RangeLen(ResolvedCell.val) >= WrittenSize) =>
               result = Ok(Small(Range(ResolvedCell.val.start,
                                       ResolvedCell.val.start + WrittenSize)))
        /\ (/\ WrittenSize >= 16345
            /\ IsOk(ResolvedCell)
            /\ RangeLen(ResolvedCell.val) >= BigDataHeaderSize) =>
               IF SubSeq(Slice(hive, ResolvedCell.val), 1, 2) # DbSignature
               THEN IsErr(result) /\ result.kind = "InvalidTwoByteSignature"
               ELSE WrittenSize <= hive.p.segment_count * 16344 =>
                        IsOk(result) /\ result.val.kind = "Big"

\* The smallest size above the threshold is read as Big Data.
C2_Witness ==
    /\ op = "data" /\ ~WrittenInline
    /\ WrittenSize = 16345
    /\ IsOk(result) /\ result.val.kind = "Big"

\* C3: for a value with the inline bit clear and a declared size of at most
\* 16344, data() returns the error of resolving data_offset unchanged, and
\* an InvalidDataSize error (expected: the declared size, actual: the length
\* of the cell's payload) when the cell is shorter than the declared size;
\* a Small slice it returns lies within the cell.
C3_SmallErrors ==
    (op = "data" /\ ~WrittenInline /\ WrittenSize <= 16344) =>
        /\ IsErr(ResolvedCell) => result = ResolvedCell
        /\ (IsOk(ResolvedCell) /\ RangeLen(ResolvedCell.val) < WrittenSize) =>
               /\ IsErr(result)
               /\ result.kind = "InvalidDataSize"
               /\ result.expected = WrittenSize
               /\ result.actual = RangeLen(ResolvedCell.val)
        /\ IsOk(result) =>
               /\ IsOk(ResolvedCell)
               /\ result.val.kind = "Small"
               /\ ResolvedCell.val.start <= result.val.range.start
               /\ result.val.range.end <= ResolvedCell.val.end

\* A declared size one above the payload of the cell is refused.
C3_Witness ==
    /\ op = "data" /\ ~WrittenInline
    /\ IsOk(ResolvedCell)
    /\ WrittenSize = RangeLen(ResolvedCell.val) + 1
    /\ IsErr(result) /\ result.kind = "InvalidDataSize"

\* C4: data_type() gives the REG_* type of the codes 0..=11 and an
\* UnsupportedKeyValueDataType error that carries the code for every other
\* code.
C4_DataType ==
    op = "data_type" =>
        IF WrittenSupported
        THEN result = Ok(WrittenType)
        ELSE /\ IsErr(result)
             /\ result.kind = "UnsupportedKeyValueDataType"
             /\ result.actual = WrittenCode

\* The code 11 is REG_QWORD.
C4_Witness ==
    /\ op = "data_type"
    /\ hive.p.data_type = <<11, 0, 0, 0>>
    /\ result = Ok("RegQWord")

\* C5: dword_data() of a value whose data() is Small of exactly 4 bytes
\* b0..b3 is b0 + b1*2^8 + b2*2^16 + b3*2^24 for REG_DWORD and
\* b3 + b2*2^8 + b1*2^16 + b0*2^24 for REG_DWORD_BIG_ENDIAN: the bytes of 42
\* read as 42 and as 704643072.
C5_DWord ==
    (op = "dword_data" /\ SmallData /\ Len(SmallBytes) = 4) =>
        /\ WrittenType = "RegDWord" =>
               result = Ok([lo |-> SmallBytes[1] + SmallBytes[2] * 256,
                            hi |-> SmallBytes[3] + SmallBytes[4] * 256])
        /\ WrittenType = "RegDWordBigEndian" =>
               result = Ok([lo |-> SmallBytes[4] + SmallBytes[3] * 256,
                            hi |-> SmallBytes[2] + SmallBytes[1] * 256])
        /\ (WrittenType = "RegDWord" /\ SmallBytes = <<42, 0, 0, 0>>) =>
               ToInt(result.val) = 42
        /\ (WrittenType = "RegDWordBigEndian"
            /\ SmallBytes = <<42, 0, 0, 0>>) =>
               ToInt(result.val) = 704643072

\* The bytes of 42 are read as a REG_DWORD_BIG_ENDIAN.
C5_Witness ==
    /\ op = "dword_data"
    /\ WrittenType = "RegDWordBigEndian"
    /\ SmallData /\ SmallBytes = <<42, 0, 0, 0>>
    /\ IsOk(result) /\ ToInt(result.val) = 704643072

\* C6: qword_data() of a REG_QWORD value whose data() is Small of exactly 8
\* bytes is the little-endian u64 of the bytes; 8 bytes 0xFF are u64::MAX.
C6_QWord ==
    (/\ op = "qword_data" /\ WrittenType = "RegQWord"
     /\ SmallData /\ Len(SmallBytes) = 8) =>
        /\ result = Ok(<<SmallBytes[1] + SmallBytes[2] * 256,
                         SmallBytes[3] + SmallBytes[4] * 256,
                         SmallBytes[5] + SmallBytes[6] * 256,
                         SmallBytes[7] + SmallBytes[8] * 256>>)
        /\ SmallBytes = <<255, 255, 255, 255, 255, 255, 255, 255>> =>
               result = Ok(<<65535, 65535, 65535, 65535>>)

\* Eight bytes that differ in every 16-bit limb are read.
C6_Witness ==
    /\ op = "qword_data" /\ WrittenType = "RegQWord"
    /\ SmallData /\ SmallBytes = <<42, 0, 1, 128, 255, 255, 0, 0>>
    /\ result = Ok(<<42, 32769, 65535, 0>>)

\* C7: dword_data() returns an InvalidDataSize error that expects 4 when
\* data() is Small of another length or Big, qword_data() one that expects 8
\* likewise; an integer is returned for Small data of that length only.
C7_DataSize ==
    /\ (op = "dword_data" /\ SmallData /\ Len(SmallBytes) # 4) =>
           /\ IsErr(result) /\ result.kind = "InvalidDataSize"
           /\ result.expected = 4 /\ result.actual = Len(SmallBytes)
    /\ (op = "dword_data" /\ BigValueData) =>
           /\ IsErr(result) /\ result.kind = "InvalidDataSize"
           /\ result.expected = 4
    /\ (op = "dword_data" /\ IsOk(result)) =>
           SmallData /\ Len(SmallBytes) = 4
    /\ (op = "qword_data" /\ SmallData /\ Len(SmallBytes) # 8) =>
           /\ IsErr(result) /\ result.kind = "InvalidDataSize"
           /\ result.expected = 8 /\ result.actual = Len(SmallBytes)
    /\ (op = "qword_data" /\ BigValueData) =>
           /\ IsErr(result) /\ result.kind = "InvalidDataSize"
           /\ result.expected = 8
    /\ (op = "qword_data" /\ IsOk(result)) =>
           SmallData /\ Len(SmallBytes) = 8

\* A REG_DWORD value of 8 bytes is refused.
C7_Witness ==
    /\ op = "dword_data" /\ WrittenType = "RegDWord"
    /\ SmallData /\ Len(SmallBytes) = 8
    /\ IsErr(result) /\ result.kind = "InvalidDataSize"
    /\ result.expected = 4

\* The error of an accessor for a value of a type it does not take.
TypeRejected ==
    /\ IsErr(result)
    /\ IF WrittenSupported
       THEN result.kind = "InvalidKeyValueDataType"
            /\ result.actual = WrittenType
       ELSE result.kind = "UnsupportedKeyValueDataType"

\* C8: a typed accessor returns an error and no decoded result for a value
\* of another type: string_data() and multi_string_data() return
\* InvalidKeyValueDataType naming the actual type, or
\* UnsupportedKeyValueDataType for a code outside 0..=11; dword_data() and
\* qword_data() return that error when data() is Small of the length they
\* require, and the error of data() or of the length otherwise.
C8_TypeChecked ==
    /\ (op = "string_data" /\ WrittenType \notin {"RegSZ", "RegExpandSZ"}) =>
           TypeRejected
    /\ (op = "multi_string_data" /\ WrittenType # "RegMultiSZ") =>
           TypeRejected
    /\ (op = "dword_data"
        /\ WrittenType \notin {"RegDWord", "RegDWordBigEndian"}) =>
           /\ IsErr(result)
           /\ (SmallData /\ Len(SmallBytes) = 4) => TypeRejected
           /\ ~(SmallData /\ Len(SmallBytes) = 4) =>
                  IF IsErr(ValueData) THEN result = ValueData
                  ELSE result.kind = "InvalidDataSize"
    /\ (op = "qword_data" /\ WrittenType # "RegQWord") =>
           /\ IsErr(result)
           /\ (SmallData /\ Len(SmallBytes) = 8) => TypeRejected
           /\ ~(SmallData /\ Len(SmallBytes) = 8) =>
                  IF IsErr(ValueData) THEN result = ValueData
                  ELSE result.kind = "InvalidDataSize"

\* dword_data() names the type of a REG_SZ value of 4 bytes.
C8_Witness ==
    /\ op = "dword_data" /\ WrittenType = "RegSZ"
    /\ SmallData /\ Len(SmallBytes) = 4
    /\ IsErr(result) /\ result.kind = "InvalidKeyValueDataType"
    /\ result.actual = "RegSZ"

\* C8 as it is stated: every typed accessor returns InvalidKeyValueDataType
\* or UnsupportedKeyValueDataType for every value of another type.
C8_AsStated ==
    /\ (op = "string_data" /\ WrittenType \notin {"RegSZ", "RegExpandSZ"}) =>
           TypeRejected
    /\ (op = "multi_string_data" /\ WrittenType # "RegMultiSZ") =>
           TypeRejected
    /\ (op = "dword_data"
        /\ WrittenType \notin {"RegDWord", "RegDWordBigEndian"}) =>
           TypeRejected
    /\ (op = "qword_data" /\ WrittenType # "RegQWord") => TypeRejected

(***************************************************************************)
(* The payload as it was written: its code units, and whether data() can   *)
(* read all of it.                                                         *)
(***************************************************************************)
WrittenReadable ==
    IF WrittenInline THEN WrittenSize <= 4
    ELSE IF WrittenSize <= 16344
    THEN /\ hive.p.data_offset = U32ToLe(SmallCellOffset)
         /\ WrittenSize <= ShortCellSize - CellHeaderSize
    ELSE /\ hive.p.data_offset = U32ToLe(DbCellOffset)
         /\ hive.p.db_signature = DbSignature
         /\ WrittenSize <= hive.p.segment_count * 16344
         /\ hive.p.seg1_offset = Seg1CellOffset
         /\ WrittenSize - 16344 <= ShortCellSize - CellHeaderSize

\* The k-th code unit (from 1) of the payload.  The first segment of Big
\* Data holds the units 1..8172.
WrittenUnit(k) ==
    IF WrittenInline
    THEN hive.p.data_offset[2 * k - 1] + 256 * hive.p.data_offset[2 * k]
    ELSE IF WrittenSize <= 16344
    THEN IF k <= Len(hive.p.small) THEN hive.p.small[k] ELSE 0
    ELSE IF k = 1 THEN hive.p.first
    ELSE IF k < 8172 THEN 97
    ELSE IF k <= 8174 THEN hive.p.edge[k - 8171]
    ELSE 97

WrittenUnits == [k \in 1..(WrittenSize \div 2) |-> WrittenUnit(k)]

\* The characters of the units of us from unit i up to the first NUL at or
\* after it, or up to the end.
CharsUpToNul(us, i, nul) ==
    DecodedChars(us, i, IF nul > 0 THEN nul - 1 ELSE Len(us))

CharsFrom(us, i) == CharsUpToNul(us, i, FirstNul(us, i))

\* A surrogate pair lies across the boundary of the Big Data segments.
PairAcrossSegments ==
    /\ ~WrittenInline /\ WrittenSize >= 16346
    /\ IsHighSurrogate(hive.p.edge[1]) /\ IsLowSurrogate(hive.p.edge[2])

\* C9: string_data() of a REG_SZ or REG_EXPAND_SZ value returns the
\* characters of the payload (the Small slice, or the Big Data segments
\* concatenated) decoded as UTF-16LE, up to the first NUL or to the end.
C9_StringData ==
    (/\ op = "string_data"
     /\ WrittenType \in {"RegSZ", "RegExpandSZ"}
     /\ WrittenReadable) =>
        result = Ok(CharsFrom(WrittenUnits, 1))

\* The units D83D DE00 across the boundary of the segments come out as two
\* replacement characters.
C9_Witness ==
    /\ op = "string_data"
    /\ WrittenType = "RegSZ" /\ WrittenReadable /\ PairAcrossSegments
    /\ IsOk(result)
    /\ Len(result.val) = 8175
    /\ result.val[8172] = REPLACEMENT_CHARACTER
    /\ result.val[8173] = REPLACEMENT_CHARACTER

\* string_data() returns the characters of the payload whenever no
\* surrogate pair lies across the boundary of two segments.
StringDataWithinSegments ==
    (/\ op = "string_data"
     /\ WrittenType \in {"RegSZ", "RegExpandSZ"}
     /\ WrittenReadable
     /\ ~PairAcrossSegments) =>
        result = Ok(CharsFrom(WrittenUnits, 1))

\* The units at which a string of a REG_MULTI_SZ payload begins.
StringStarts(us) ==
    {i \in 1..Len(us) : us[i] # 0 /\ (i = 1 \/ us[i - 1] = 0)}

\* The payload is strings that are each followed by one NUL, but that the
\* last NUL may be missing and one more NUL may end the payload.
StringsAndNuls(us) ==
    \A i \in 1..Len(us) :
        (us[i] = 0 /\ (i = 1 \/ us[i - 1] = 0)) => i = Len(us)

NthStart(starts, k) ==
    CHOOSE i \in starts : Cardinality({j \in starts : j < i}) = k - 1

\* What the k-th next() call is to return.
NthItem(us, starts, k) ==
    IF k <= Cardinality(starts)
    THEN Some(Ok(CharsFrom(us, NthStart(starts, k))))
    ELSE None

ItemsOf(us, starts) ==
    \A k \in 1..Len(yielded) :
        k <= Cardinality(starts) + 1 => yielded[k] = NthItem(us, starts, k)

\* C10: the iterator of multi_string_data() over a payload of n strings,
\* each followed by one NUL (the last NUL and one more NUL at the end are
\* optional), returns the n strings in order and then None.
C10_MultiString ==
    (/\ strings.made
     /\ WrittenType = "RegMultiSZ"
     /\ WrittenReadable
     /\ WrittenSize % 2 = 0
     /\ StringsAndNuls(WrittenUnits)) =>
        ItemsOf(WrittenUnits, StringStarts(WrittenUnits))

\* The first string of a Big Data payload with the units D83D DE00 across
\* the boundary of the segments has two replacement characters for them.
C10_Witness ==
    /\ op = "next" /\ Len(yielded) = 1
    /\ WrittenType = "RegMultiSZ" /\ WrittenReadable /\ PairAcrossSegments
    /\ StringsAndNuls(WrittenUnits)
    /\ yielded[1].tag = "Some" /\ IsOk(yielded[1].val)
    /\ yielded[1].val.val[8172] = REPLACEMENT_CHARACTER
    /\ yielded[1].val.val[8173] = REPLACEMENT_CHARACTER

\* The iterator returns the strings of the payload and then None whenever
\* no surrogate pair lies across the boundary of two segments.
MultiStringWithinSegments ==
    (/\ strings.made
     /\ WrittenType = "RegMultiSZ"
     /\ WrittenReadable
     /\ WrittenSize % 2 = 0
     /\ StringsAndNuls(WrittenUnits)
     /\ ~PairAcrossSegments) =>
        ItemsOf(WrittenUnits, StringStarts(WrittenUnits))

\* The payload is one the iterator of multi_string_data() reads.
MultiSZPayload ==
    /\ strings.made
    /\ WrittenType = "RegMultiSZ"
    /\ WrittenReadable
    /\ WrittenSize % 2 = 0

\* C11: once a next() call of the REG_MULTI_SZ iterator has returned None,
\* every later next() call returns None.
C11_Fused ==
    \A i \in 1..Len(yielded) :
        \A j \in 1..Len(yielded) :
            (i < j /\ yielded[i] = None) => yielded[j] = None

\* Over the payload 'a' NUL NUL 'a' the calls return "a", None and "a".
C11_Witness ==
    /\ MultiSZPayload /\ ~WrittenInline
    /\ WrittenUnits = <<97, 0, 0, 97>>
    /\ yielded = <<Some(Ok(<<97>>)), None, Some(Ok(<<97>>))>>

\* C12: for every payload, the strings the iterator returns up to its first
\* None are the maximal runs of the payload without a NUL, in order.  (A
\* payload with a surrogate pair across the boundary of two segments is left
\* out: C10.)
C12_SkipsNuls ==
    (MultiSZPayload /\ ~PairAcrossSegments) =>
        ItemsOf(WrittenUnits, StringStarts(WrittenUnits))

\* Over the payload NUL 'a' the first call returns None.
C12_Witness ==
    /\ MultiSZPayload /\ ~WrittenInline
    /\ WrittenUnits = <<0, 97>>
    /\ yielded = <<None>>

\* The slices of the Big Data payload: the units 1..8172 are the first.
SegmentUnits == BIG_DATA_SEGMENT_SIZE \div 2

\* The characters of the units i..j of us, each segment's part decoded by
\* itself and the parts appended in order.
SegmentChars(us, i, j) ==
    IF i <= SegmentUnits /\ j > SegmentUnits
    THEN DecodedChars(SubSeq(us, i, SegmentUnits), 1, SegmentUnits - i + 1)
         \o DecodedChars(SubSeq(us, SegmentUnits + 1, j), 1, j - SegmentUnits)
    ELSE DecodedChars(SubSeq(us, i, j), 1, j - i + 1)

StringEnd(us, nul) == IF nul > 0 THEN nul - 1 ELSE Len(us)

NthSegmentItem(us, starts, k) ==
    IF k <= Cardinality(starts)
    THEN Some(Ok(SegmentChars(us, NthStart(starts, k),
                              StringEnd(us, FirstNul(us, NthStart(starts, k))))))
    ELSE None

SegmentItemsOf(us, starts) ==
    \A k \in 1..Len(yielded) :
        k <= Cardinality(starts) + 1 =>
            yielded[k] = NthSegmentItem(us, starts, k)

BigMultiSZPayload ==
    MultiSZPayload /\ ~WrittenInline /\ WrittenSize > 16344

\* Where the payload of a cell begins.
PayloadOf(cell_offset) == cell_offset + CellHeaderSize

\* C13: over a Big Data payload of strings and NULs, a string that goes on
\* in the next segment is returned as one string, made of the characters of
\* its part in each segment in order, up to a NUL or the end of the last
\* segment; and the iterator has taken from the Big Data iterator the
\* segment it is reading and none after it.
C13_AcrossSegments ==
    BigMultiSZPayload =>
        /\ StringsAndNuls(WrittenUnits) =>
               SegmentItemsOf(WrittenUnits, StringStarts(WrittenUnits))
        /\ (/\ strings.char_iter # None
            /\ strings.char_iter.val.range.start = PayloadOf(Seg0CellOffset)) =>
               strings.big_iter.val.bytes_left = WrittenSize - 16344
        /\ (strings.char_iter = None /\ yielded = <<>>) =>
               strings.big_iter.val.bytes_left = WrittenSize

\* The first string ends in the second segment and is followed by another.
C13_Witness ==
    /\ BigMultiSZPayload
    /\ hive.p.edge = <<97, 97, 0>>
    /\ Len(yielded) = 3
    /\ yielded[1].tag = "Some" /\ IsOk(yielded[1].val)
    /\ Len(yielded[1].val.val) = SegmentUnits + 1
    /\ yielded[2] = Some(Ok(<<97>>))
    /\ yielded[3] = None

\* The name_length and flags fields as they were written.
WrittenNameLength == hive.p.name_length[1] + 256 * hive.p.name_length[2]

WrittenCompName == hive.p.flags[1] % 2 = 1

\* Where the bytes after the vk header begin, and how many the cell has.
NameAt == VkCellOffset + CellHeaderSize + 20

NameRoom == VkCellSize - CellHeaderSize - 20

\* C14: name() is a view of exactly name_length bytes that begins right
\* after the 20-byte vk header, Latin1 when bit 0x0001 of the flags is set
\* and Utf16LE when it is clear; with a name_length above the bytes the cell
\* has after the header it is an InvalidSizeField error.
C14_Name ==
    op = "name" =>
        IF WrittenNameLength <= NameRoom
        THEN /\ result = Ok([kind  |-> IF WrittenCompName THEN "Latin1"
                                       ELSE "Utf16LE",
                             range |-> Range(NameAt,
                                             NameAt + WrittenNameLength)])
             /\ Slice(hive, result.val.range)
                    = SubSeq(Pad(hive.p.name, NameRoom), 1, WrittenNameLength)
        ELSE /\ IsErr(result) /\ result.kind = "InvalidSizeField"
             /\ result.expected = WrittenNameLength
             /\ result.actual = NameRoom

\* A name of all 8 bytes of the cell, with other flag bits set and bit
\* 0x0001 clear, is Utf16LE.
C14_Witness ==
    /\ op = "name"
    /\ WrittenNameLength = 8 /\ hive.p.flags = <<254, 255>>
    /\ IsOk(result) /\ result.val.kind = "Utf16LE"
    /\ Slice(hive, result.val.range) = hive.p.name

\* The length a value cell was written with, and the two bytes its payload
\* begins with.
WrittenCellSize(c) ==
    IF c = VkCellOffset THEN VkCellSize
    ELSE IF c = SmallCellOffset THEN ShortCellSize
    ELSE Seg0CellSize

WrittenSignature(c) ==
    IF c = VkCellOffset THEN hive.p.signature
    ELSE IF c = SmallCellOffset THEN <<0, 0>>
    ELSE <<hive.p.first % 256, hive.p.first \div 256>>

\* What constructing a view over the value cell c has to return.
ValueExpected(c, made) ==
    IF WrittenCellSize(c) - CellHeaderSize < 20
    THEN /\ IsErr(made) /\ made.kind = "InvalidHeaderSize"
         /\ made.expected = 20
         /\ made.actual = WrittenCellSize(c) - CellHeaderSize
    ELSE IF WrittenSignature(c) # <<118, 107>>
    THEN made = Err("InvalidTwoByteSignature", HiveDataOrigin + c + 4,
                    <<118, 107>>, WrittenSignature(c))
    ELSE made = Ok([header_range |-> Range(c + 4, c + 24),
                    data_range   |-> Range(c + 24, c + WrittenCellSize(c))])

\* C15: KeyValue::new over a cell is InvalidHeaderSize when the payload is
\* shorter than 20 bytes, else InvalidTwoByteSignature (expected "vk", the
\* two bytes found, the file offset of the signature) when the payload
\* does not begin with "vk", else the view; a failure leaves no view, and
\* every element of a value list is what its own cell gives, whatever the
\* elements before it were.
C15_New ==
    /\ \A k \in 1..Len(yielded) :
          ValueExpected(hive.value_list[k], yielded[k])
    /\ (op = "new" /\ IsErr(result)) => key_value = NoKeyValue
    /\ (op = "new" /\ IsOk(result)) => key_value = result.val

\* A value list whose first two elements fail, one with each error, and
\* whose third is a view.
C15_Witness ==
    /\ Len(yielded) = 3
    /\ IsErr(yielded[1]) /\ yielded[1].kind = "InvalidHeaderSize"
    /\ IsErr(yielded[2]) /\ yielded[2].kind = "InvalidTwoByteSignature"
    /\ yielded[2].actual = <<120, 120>>
    /\ IsOk(yielded[3]) /\ key_value = yielded[3].val

\* The Index Root blob as it was written: the leaves, the cells that are no
\* leaf, and what each element has to contribute to the iteration.
WrittenLeaves == {LiEmptyOffset, Li2Offset, Lf1Offset, Lh2Offset}

WrittenSignatureAt(e) == IF e = NkOffset THEN <<110, 107>> ELSE <<114, 105>>

RECURSIVE KeysOf(_)
KeysOf(keys) ==
    IF keys = <<>> THEN <<>>
    ELSE <<Some(Ok(Head(keys)))>> \o KeysOf(Tail(keys))

ElementExpected(e) ==
    IF e \in WrittenLeaves THEN KeysOf(LeafKeys(e))
    ELSE IF e \in {NkOffset, 0}
    THEN <<Some(Err("InvalidSignature", HiveDataOrigin + e, "li|lf|lh",
                    WrittenSignatureAt(e)))>>
    ELSE <<"panic">>

RECURSIVE ElementsExpected(_)
ElementsExpected(elements) ==
    IF elements = <<>> THEN <<>>
    ELSE ElementExpected(Head(elements)) \o ElementsExpected(Tail(elements))

\* The iterator is over the Index Root at offset 0, the one with the
\* elements of the blob.
OverElements ==
    /\ index_root # None
    /\ index_root.val.end_offset
          = HiveDataOrigin + 4 + 4 * Len(hive.elements)

YieldedAsWritten ==
    \A k \in 1..Len(yielded) :
        yielded[k] = IF k <= Len(ElementsExpected(hive.elements))
                     THEN ElementsExpected(hive.elements)[k]
                     ELSE None

AllLeaves == \A k \in 1..Len(hive.elements) : hive.elements[k] \in WrittenLeaves

\* C16: over an Index Root whose elements all point to li, lf or lh leaves,
\* the next() calls return the entries of the leaf of element 0 in the
\* leaf's order, then those of the leaf of element 1, and so on; an empty
\* leaf gives no element and does not end the iteration; None comes after
\* as many elements as the leaves have entries.
C16_LeavesInSequence == (OverElements /\ AllLeaves) => YieldedAsWritten

\* A leaf of two, an empty leaf and a leaf of two: four entries, then None.
C16_Witness ==
    /\ OverElements
    /\ hive.elements = <<Li2Offset, LiEmptyOffset, Lh2Offset>>
    /\ yielded = <<Some(Ok(600)), Some(Ok(700)), Some(Ok(900)),
                   Some(Ok(65541)), None>>

SomeBadSignature ==
    \E k \in 1..Len(hive.elements) : hive.elements[k] \in {NkOffset, 0}

WithinBlob ==
    \A k \in 1..Len(hive.elements) :
        hive.elements[k] \in WrittenLeaves \cup {NkOffset, 0}

\* C17: an element that points to a signature other than li, lf and lh
\* (another ri included) gives one error element with expected "li|lf|lh",
\* the signature found and the offset of that signature in the blob; the
\* calls after it return the entries of the leaves of the elements after
\* it.
C17_BadSignature ==
    (OverElements /\ WithinBlob /\ SomeBadSignature) => YieldedAsWritten

\* A leaf, a Key Node, the Index Root itself and a leaf.
C17_Witness ==
    /\ OverElements
    /\ hive.elements = <<Li2Offset, NkOffset, 0>>
    /\ Len(yielded) = 4
    /\ yielded[3].val.actual = <<110, 107>>
    /\ yielded[3].val.offset = HiveDataOrigin + NkOffset
    /\ yielded[4].val.actual = <<114, 105>>

Exhausted(it) ==
    /\ it.current_offset >= it.end_offset
    /\ it.inner_iter # None =>
          it.inner_iter.val.current_offset >= it.inner_iter.val.end_offset

RECURSIVE TotalEntries(_)
TotalEntries(elements) ==
    IF elements = <<>> THEN 0
    ELSE Len(LeafKeys(Head(elements))) + TotalEntries(Tail(elements))

\* What a next() call on the iterator it returns: an element, None or a
\* panic, with the cursor moved on by whole elements and not past the end.
Returns(it, n) ==
    /\ n.item.tag \in {"Some", "None", "Panic"}
    /\ n.iter.current_offset \in it.current_offset..it.end_offset
    /\ n.iter.end_offset = it.end_offset

\* C18: a next() call returns, whatever the iterator; it returns None only
\* with the cursor past all count elements and no entry left in the inner
\* iterator, and exactly from the call on that follows the last entry or
\* error element of the Index Root as written; an element is returned
\* within count + (total entries) calls.
C18_NoneWhenExhausted ==
    /\ index_root # None
          => Returns(index_root.val, IndexRootIter_next(hive, index_root.val))
    /\ (op = "next" /\ result = None) => Exhausted(index_root.val)
    /\ OverElements =>
          \A k \in 1..Len(yielded) :
              /\ yielded[k] = None
                    <=> k > Len(ElementsExpected(hive.elements))
              /\ yielded[k] # None
                    => k <= Len(hive.elements) + TotalEntries(hive.elements)

\* Empty leaves before, between and after a leaf of two: None is the third
\* element.
C18_Witness ==
    /\ OverElements
    /\ hive.elements = <<LiEmptyOffset, Li2Offset, LiEmptyOffset>>
    /\ op = "next" /\ result = None /\ Len(yielded) = 3
    /\ Exhausted(index_root.val)

\* C19: creating the iterator and calling next() never panic.
C19_NoPanic == ~IsPanic(result)

\* The assert! of new() fails on a signature that is not "ri".
C19_Witness == op = "panic" /\ result = Panic(53)

\* The view and the accessors that read the blob only: after any calls they
\* are what they are on the blob as parsed anew.
SameAsFresh ==
    /\ key_value # NoKeyValue => Ok(key_value) = NewKeyValue(hive)
    /\ op = "data" => result = data(hive, key_value)
    /\ op = "data_type" => result = data_type(hive, key_value)
    /\ op = "data_size" => result = Ok(data_size(hive, key_value))
    /\ op = "name" => result = name(hive, key_value)
    /\ op = "string_data" => result = string_data(hive, key_value)

\* C20: there is no hidden state: whatever was called before, errors
\* included, an accessor returns what it returns on the blob parsed anew,
\* and what it returns in any other run over the same blob.
C20_NoHiddenState ==
    /\ SameAsFresh
    /\ op = "dword_data" =>
          \A stack_offset \in StackOffsets :
              result = dword_data(hive, key_value, stack_offset)
    /\ op = "qword_data" =>
          \A stack_offset \in StackOffsets :
              result = qword_data(hive, key_value, stack_offset)

\* dword_data() of data that is not four bytes long, with the error offset
\* of another run.
C20_Witness ==
    /\ op = "dword_data"
    /\ IsErr(result) /\ result.kind = "InvalidDataSize"
    /\ result # dword_data(hive, key_value, 0)

\* The table read from its first pair to its last: the indexes of the
\* pairs whose lower unit is the unit.
LinearScan(unit) ==
    {i \in 1..Len(BMP_UPPERCASE_TABLE) : BMP_UPPERCASE_TABLE[i][1] = unit}

FoldedByScan(unit, found) ==
    IF found = {} THEN unit
    ELSE BMP_UPPERCASE_TABLE[CHOOSE i \in found : TRUE][2]

StrictlyAscending ==
    \A i \in 1..(Len(BMP_UPPERCASE_TABLE) - 1) :
        BMP_UPPERCASE_TABLE[i][1] < BMP_UPPERCASE_TABLE[i + 1][1]

ScanAgrees(unit, found) ==
    /\ Cardinality(found) <= 1
    /\ utf16_code_unit_to_uppercase(unit) = FoldedByScan(unit, found)
    /\ op = "uppercase" => result = FoldedByScan(unit, found)

\* C26: folding a code unit gives the upper unit of the pair that lists it
\* as lower, and the unit itself when no pair lists it: the lower units of
\* the table are strictly ascending, so that at most one pair lists a unit
\* and the binary search finds what a scan of the whole table finds, for
\* every u16.
C26_Uppercase ==
    /\ StrictlyAscending
    /\ ScanAgrees(operands[1], LinearScan(operands[1]))

\* The first pair of the table: 'a' folds to 'A'.
C26_Witness == op = "uppercase" /\ operands = <<97>> /\ result = 65

\* The comparison the code offers for two operands, one of them a name
\* at least: name with name, name with host string, host string with name.
Compare(x, y) ==
    IF x.kind = "str" THEN cmp_str_and_self(x, y)
    ELSE IF y.kind = "str" THEN cmp_self_and_str(x, y)
    ELSE cmp(x, y)

Reverse(ordering) ==
    IF ordering = "Less" THEN "Greater"
    ELSE IF ordering = "Greater" THEN "Less"
    ELSE "Equal"

Compared == op \in {"cmp", "cmp_self_and_str", "cmp_str_and_self"}

\* C21: a name compared with itself is Equal; comparing two operands in
\* the other order, two names of any encodings or a name and a host
\* string, gives the reverse.
C21_ReflexiveAntisymmetric ==
    /\ \A k \in 1..2 :
          operands[k] \in NameOperands
              => cmp(operands[k].v, operands[k].v) = "Equal"
    /\ Compare(operands[1].v, operands[2].v)
          = Reverse(Compare(operands[2].v, operands[1].v))
    /\ Compared => result = Compare(operands[1].v, operands[2].v)

\* The Latin1 name "a" is Less than the host string "B", which is Greater
\* than the name.
C21_Witness ==
    /\ op = "cmp_self_and_str" /\ result = "Less"
    /\ operands[1].v = Latin1(<<97>>) /\ operands[2].v = Str(<<66>>)
    /\ cmp_str_and_self(operands[2].v, operands[1].v) = "Greater"

AtMostEqual(ordering) == ordering \in {"Less", "Equal"}

\* The operands c that can be compared with both operands of the state.
ThirdOperands ==
    IF operands[1] \in StrOperands \/ operands[2] \in StrOperands
    THEN NameOperands ELSE Operands

\* C22: for operands a, b, c of any kinds, a <= b and b <= c give a <= c,
\* and a = b and b = c give a = c.
C22_Transitive ==
    AtMostEqual(Compare(operands[1].v, operands[2].v)) =>
        \A c \in ThirdOperands :
            /\ AtMostEqual(Compare(operands[2].v, c.v))
                  => AtMostEqual(Compare(operands[1].v, c.v))
            /\ (/\ Compare(operands[1].v, operands[2].v) = "Equal"
                /\ Compare(operands[2].v, c.v) = "Equal")
                  => Compare(operands[1].v, c.v) = "Equal"

\* The Latin1 name "hi" equals the host string "HI", which equals the
\* Utf16LE name "Hi", and the two names are equal.
C22_Witness ==
    /\ op = "cmp_self_and_str" /\ result = "Equal"
    /\ operands[1].v = Latin1(<<104, 105>>)
    /\ operands[2].v = Str(<<72, 73>>)
    /\ cmp_str_and_self(operands[2].v, Utf16LE(<<72, 0, 105, 0>>)) = "Equal"
    /\ cmp(operands[1].v, Utf16LE(<<72, 0, 105, 0>>)) = "Equal"

\* The code units an operand was written with, each folded by a scan of
\* the table.
WrittenFolded(o) ==
    [k \in 1..Len(o.p.units) |->
        FoldedByScan(o.p.units[k], LinearScan(o.p.units[k]))]

\* C23: operands of any kinds and in either order are Equal exactly when
\* their code unit sequences have the same length and the same units after
\* folding.
C23_EqualFolded ==
    /\ (Compare(operands[1].v, operands[2].v) = "Equal")
          <=> (WrittenFolded(operands[1]) = WrittenFolded(operands[2]))
    /\ (Compare(operands[2].v, operands[1].v) = "Equal")
          <=> (WrittenFolded(operands[1]) = WrittenFolded(operands[2]))
    /\ Len(operands[1].p.units) # Len(operands[2].p.units)
          => Compare(operands[1].v, operands[2].v) # "Equal"

\* The Latin1 byte 0xD6 equals the host string of o with diaeresis.
C23_Witness ==
    /\ op = "cmp_self_and_str" /\ result = "Equal"
    /\ operands[1].v = Latin1(<<214>>) /\ operands[2].v = Str(<<246>>)

\* The lexicographic order of two sequences of numbers.
FirstDifference(x, y) ==
    {k \in 1..Min(Len(x), Len(y)) :
        /\ x[k] # y[k]
        /\ \A i \in 1..(k - 1) : x[i] = y[i]}

Lexicographic(x, y, differ) ==
    IF differ = {} THEN OrderingOf(Len(x), Len(y))
    ELSE OrderingOf(x[CHOOSE k \in differ : TRUE], y[CHOOSE k \in differ : TRUE])

\* C24: the comparison is the lexicographic one of the folded code unit
\* sequences: the first place where they differ decides, and with none the
\* shorter operand is Less and the longer one Greater.
C24_Lexicographic ==
    /\ Compare(operands[1].v, operands[2].v)
          = Lexicographic(WrittenFolded(operands[1]), WrittenFolded(operands[2]),
                          FirstDifference(WrittenFolded(operands[1]),
                                          WrittenFolded(operands[2])))
    /\ Compared => result = Compare(operands[1].v, operands[2].v)

\* The Utf16LE name "a" is a prefix of the Latin1 name "aB" and Less, and
\* Less than the Latin1 name "B", which its unit as it is would not be.
C24_Witness ==
    /\ op = "cmp" /\ result = "Less"
    /\ operands[1].v = Utf16LE(<<97, 0>>)
    /\ operands[2].v = Latin1(<<97, 66>>)
    /\ cmp(operands[1].v, Latin1(<<66>>)) = "Less"

IsSurrogate(u) == IsHighSurrogate(u) \/ IsLowSurrogate(u)

\* The first place where the written code units of the operands differ.
WrittenDifference ==
    FirstDifference(operands[1].p.units, operands[2].p.units)

SurrogateDecides(differ) ==
    /\ differ # {}
    /\ \E k \in differ :
          IsSurrogate(operands[1].p.units[k])
              \/ IsSurrogate(operands[2].p.units[k])

\* C25: a surrogate is folded to itself, and operands whose first differing
\* code units include a surrogate compare as these raw units do; so the
\* case of a letter outside the BMP makes names unequal and the order is
\* that of the code units, not of the characters.
C25_Surrogates ==
    /\ \A k \in 1..2 : \A i \in 1..Len(operands[k].p.units) :
          IsSurrogate(operands[k].p.units[i])
              => utf16_code_unit_to_uppercase(operands[k].p.units[i])
                     = operands[k].p.units[i]
    /\ SurrogateDecides(WrittenDifference)
          => Compare(operands[1].v, operands[2].v)
                 = Lexicographic(operands[1].p.units, operands[2].p.units,
                                 WrittenDifference)
    /\ Compared => result = Compare(operands[1].v, operands[2].v)

\* Gothic Bairkan (U+10331, D800 DF31) is Less than full-width A (U+FF21),
\* and Deseret long H differs from small long H.
C25_Witness ==
    /\ op = "cmp" /\ result = "Less"
    /\ operands[1].v = Utf16LE(<<0, 216, 49, 223>>)
    /\ operands[2].v = Utf16LE(<<33, 255>>)
    /\ cmp(Utf16LE(<<1, 216, 16, 220>>), Utf16LE(<<1, 216, 56, 220>>)) # "Equal"

\* C30: a Utf16LE name of an odd number of bytes is compared by its whole
\* code units, as the name without its last byte is; len() counts the
\* bytes and is_empty() holds exactly for no byte: a name of one byte is
\* Equal to the empty host string and is not empty.
C30_TrailingByte ==
    /\ \A k \in 1..2 :
          operands[k] \in Utf16LEOperands =>
              /\ utf16le_iter(operands[k].v) = operands[k].p.units
              /\ len(operands[k].v)
                    = 2 * Len(operands[k].p.units) + Len(operands[k].p.more)
              /\ cmp(operands[k].v, Utf16LE(UnitBytes(operands[k].p.units)))
                    = "Equal"
              /\ (operands[k].p.units = <<>>)
                    => cmp_self_and_str(operands[k].v, Str(<<>>)) = "Equal"
    /\ Compared => result = Compare(operands[1].v, operands[2].v)
    /\ op = "len" => result = Len(operands[1].v.range)
    /\ op = "is_empty" => result = (Len(operands[1].v.range) = 0)

\* The Utf16LE name of the single byte 'a' is not empty.
C30_Witness ==
    /\ op = "is_empty" /\ result = FALSE
    /\ operands[1].v = Utf16LE(<<97>>)
    /\ cmp_self_and_str(operands[1].v, Str(<<>>)) = "Equal"

\* The two units at m and m + 1 are in two segments of Big Data.
AcrossSegments(m) ==
    ~WrittenInline /\ WrittenSize > BIG_DATA_SEGMENT_SIZE /\ m = SegmentUnits

\* The places in i..j of a high surrogate with a low one after it.
PairsIn(us, i, j) ==
    {m \in i..(j - 1) : IsHighSurrogate(us[m]) /\ IsLowSurrogate(us[m + 1])}

\* The surrogate at k has no other half in i..j.
Unpaired(us, i, j, k) ==
    /\ IsSurrogate(us[k])
    /\ ~(IsHighSurrogate(us[k]) /\ k < j /\ IsLowSurrogate(us[k + 1]))
    /\ ~(IsLowSurrogate(us[k]) /\ k > i /\ IsHighSurrogate(us[k - 1]))

\* The place in the output of the character of unit k: every unit before
\* it has made one character, but that the two units of a pair decoded
\* together have made one.
CharIndex(i, k, together) ==
    (k - i + 1) - Cardinality({m \in together : m < k})

\* chars has one replacement character for every surrogate of us[i..j]
\* without its other half, at the place of that unit, and every unit that is
\* no surrogate as it is, at its place; nothing else but the characters of
\* the pairs is in it.
LossyOver(us, i, j, chars, together) ==
    /\ Len(chars) = (j - i + 1) - Cardinality(together)
    /\ \A k \in i..j :
          /\ Unpaired(us, i, j, k) =>
                 chars[CharIndex(i, k, together)] = REPLACEMENT_CHARACTER
          /\ ~IsSurrogate(us[k]) => chars[CharIndex(i, k, together)] = us[k]

Lossy(us, i, j, chars) ==
    LossyOver(us, i, j, chars,
              {m \in PairsIn(us, i, j) : ~AcrossSegments(m)})

\* The k-th string of the iterator is decoded so.
NthLossy(us, starts, k) ==
    /\ yielded[k].tag = "Some" /\ IsOk(yielded[k].val)
    /\ Lossy(us, NthStart(starts, k),
             StringEnd(us, FirstNul(us, NthStart(starts, k))),
             yielded[k].val.val)

StringsLossy(us, starts) ==
    \A k \in 1..Len(yielded) :
        IF k <= Cardinality(starts) THEN NthLossy(us, starts, k)
        ELSE yielded[k] = None \/ IsOk(yielded[k].val)

\* C27: string_data() and the strings of multi_string_data() have exactly
\* one U+FFFD for every surrogate of the payload that has no other half,
\* the units after it are decoded as the ones before it, and a payload that
\* can be read is never refused and none of its text is left out.
C27_Lossy ==
    /\ (/\ op = "string_data"
         /\ WrittenType \in {"RegSZ", "RegExpandSZ"}
         /\ WrittenReadable) =>
            /\ IsOk(result)
            /\ Lossy(WrittenUnits, 1,
                     StringEnd(WrittenUnits, FirstNul(WrittenUnits, 1)),
                     result.val)
    /\ (/\ strings.made
         /\ WrittenType = "RegMultiSZ"
         /\ WrittenReadable
         /\ StringsAndNuls(WrittenUnits)) =>
            StringsLossy(WrittenUnits, StringStarts(WrittenUnits))

\* A high surrogate is the last unit of the first segment and a pair
\* follows it: string_data() has one U+FFFD and then the character of the
\* pair.
C27_Witness ==
    /\ op = "string_data" /\ WrittenType = "RegSZ" /\ WrittenReadable
    /\ hive.p.edge = <<55357, 55357, 56832>>
    /\ IsOk(result) /\ Len(result.val) = SegmentUnits + 2
    /\ result.val[SegmentUnits] = REPLACEMENT_CHARACTER
    /\ result.val[SegmentUnits + 1] = 128512
    /\ result.val[SegmentUnits + 2] = 97

\* The Index Roots of the blob: the one at offset 0 with the elements, and
\* the one at the end of the blob, whose count is 1.
WrittenRoots == {0, TailRiOffset}

WrittenCount(root) == IF root = 0 THEN Len(hive.elements) ELSE 1

\* The cursor of it is at an element or at the end of the count elements
\* that follow the header.
Bounded(it, header_end, count) ==
    /\ it.end_offset = header_end + 4 * count
    /\ header_end <= it.current_offset
    /\ it.current_offset <= it.end_offset
    /\ (it.current_offset - header_end) % 4 = 0
    /\ op = "new" => it.current_offset = header_end /\ it.inner_iter = None

\* The elements the first e elements of the Index Root give.
ItemsThrough(e) == Len(ElementsExpected(SubSeq(hive.elements, 1, e)))

\* The elements of the Index Root read when the calls so far have
\* returned: those up to the one that gave the last element returned, and
\* all of them once None was returned.
Consumed ==
    IF yielded = <<>> THEN 0
    ELSE IF yielded[Len(yielded)] = None THEN Len(hive.elements)
    ELSE Least({e \in 1..Len(hive.elements) : ItemsThrough(e) >= Len(yielded)})

ItemSizeAt(e) == IF e \in {LiEmptyOffset, Li2Offset} THEN 4 ELSE 8

\* The cursor of the leaf of element e after the calls so far: past the
\* entries of that leaf that were returned.
LeafCursor(e) ==
    HiveDataOrigin + hive.elements[e] + 4
    + ItemSizeAt(hive.elements[e]) * (Len(yielded) - ItemsThrough(e - 1))

\* After an entry the inner iterator is past the entries returned of its
\* leaf; after an error element and after None the inner iterator, if
\* there is one, has no entry left.
InnerAsConsumed(it, last) ==
    IF last # None /\ IsOk(last.val)
    THEN /\ it.inner_iter # None
         /\ it.inner_iter.val.current_offset = LeafCursor(Consumed)
    ELSE it.inner_iter # None =>
             it.inner_iter.val.current_offset >= it.inner_iter.val.end_offset

\* C28: the cursor of an IndexRootIter is within header_end..end_offset,
\* end_offset being header_end + 4 * count; it is 4 times the elements read
\* past header_end, so it only grows, by 4 for each element read; every
\* entry of the leaf of every element is returned once, in order; after an
\* error element the leaf before it is not returned again; after None
\* every call returns None.
C28_Cursor ==
    /\ index_root # None =>
           \E root \in WrittenRoots :
               Bounded(index_root.val,
                       HiveDataOrigin + root + IndexRootHeaderSize,
                       WrittenCount(root))
    /\ OverElements =>
           /\ index_root.val.current_offset
                  = HiveDataOrigin + IndexRootHeaderSize + 4 * Consumed
           /\ YieldedAsWritten
           /\ yielded # <<>> =>
                  InnerAsConsumed(index_root.val, yielded[Len(yielded)])
           /\ \A i \in 1..Len(yielded) :
                  \A j \in 1..Len(yielded) :
                      (i < j /\ yielded[i] = None) => yielded[j] = None

\* The two entries of a leaf, the error element of a Key Node, then None
\* twice: the empty leaf of the third element was read, the leaf of the
\* first was not read again.
C28_Witness ==
    /\ OverElements
    /\ hive.elements = <<Li2Offset, NkOffset, LiEmptyOffset>>
    /\ Len(yielded) = 5
    /\ yielded[1] = Some(Ok(600)) /\ yielded[2] = Some(Ok(700))
    /\ IsErr(yielded[3].val)
    /\ yielded[4] = None /\ yielded[5] = None
    /\ index_root.val.current_offset = index_root.val.end_offset

\* The errors that name the data type of the value.
IsTypeError(r) ==
    /\ IsErr(r)
    /\ r.kind \in {"InvalidKeyValueDataType", "UnsupportedKeyValueDataType"}

\* The error of a number accessor for data that is not Small of n bytes:
\* the error of data(), or InvalidDataSize with n expected.
DataRejected(n) ==
    /\ IsErr(result) /\ ~IsTypeError(result)
    /\ IF IsErr(ValueData) THEN result = ValueData
       ELSE result.kind = "InvalidDataSize" /\ result.expected = n

\* C29: dword_data() and qword_data() return the error of data() or of the
\* length of the data whatever the data type is, and look at the type only
\* for Small data of 4 (8) bytes; string_data() and multi_string_data()
\* return the error of the type whatever data() gives, and the error of
\* data() only for a value of their type.
C29_Precedence ==
    /\ (op = "dword_data" /\ ~(SmallData /\ Len(SmallBytes) = 4)) =>
           DataRejected(4)
    /\ (op = "dword_data" /\ SmallData /\ Len(SmallBytes) = 4
        /\ WrittenType \notin {"RegDWord", "RegDWordBigEndian"}) =>
           TypeRejected
    /\ (op = "qword_data" /\ ~(SmallData /\ Len(SmallBytes) = 8)) =>
           DataRejected(8)
    /\ (op = "qword_data" /\ SmallData /\ Len(SmallBytes) = 8
        /\ WrittenType # "RegQWord") =>
           TypeRejected
    /\ (op = "string_data" /\ WrittenType \notin {"RegSZ", "RegExpandSZ"}) =>
           TypeRejected
    /\ (op = "string_data" /\ WrittenType \in {"RegSZ", "RegExpandSZ"}
        /\ IsErr(ValueData)) =>
           result = ValueData
    /\ (op = "multi_string_data" /\ WrittenType # "RegMultiSZ") =>
           TypeRejected
    /\ (op = "multi_string_data" /\ WrittenType = "RegMultiSZ"
        /\ IsErr(ValueData)) =>
           result = ValueData

\* string_data() of a REG_BINARY value whose data offset names a cell that
\* is not allocated returns the error of the type.
C29_Witness ==
    /\ op = "string_data" /\ WrittenType = "RegBinary"
    /\ hive.p.data_offset = U32ToLe(FreeCellOffset)
    /\ IsErr(ValueData) /\ ~IsTypeError(ValueData)
    /\ result = InvalidKeyValueDataType(<<"RegSZ", "RegExpandSZ">>,
                                        "RegBinary")

====
